---- MODULE Spec2Model ----
(***************************************************************************)
(* Dynamic count labeling (hierarchical cut labels with shortest path       *)
(* counts over a degree-one contracted road network), modelled from         *)
(* road_network.cpp, util.h, index.cpp, update.cpp and query.cpp.           *)
(***************************************************************************)
EXTENDS Integers, Sequences, FiniteSets, TLC

VARIABLES
    phase,      \* position of the drivers: "read", "contracted", "cut", "sc", "index",
                \* "written" (index.cpp), "loaded" (update.cpp), "undefined" (after
                \* Graph::UpNeighbor returned without a value)
    node_data,  \* Graph::node_data[v].neighbors, v in 1..node_count
    nodes,      \* Graph::nodes, the vertices of the current (top level) graph
    closest,    \* result of Graph::contract
    ci,         \* vector<CutIndex>
    ch,         \* ContractionHierarchy::nodes
    con_index,  \* ContractionIndex::labels
    file_cl,    \* the index file <name>_cl
    file_gs,    \* the hierarchy file <name>_gs
    rounds,     \* number of edge updates applied so far
    history,    \* the last update batch and the hierarchy and labels it met
    par,        \* Graph::DCL_Dec_Par, DCL_Inc_Par: the shared bucket queue and the threads
    que         \* Graph::create_sc_graph: the par_max_bucket_list and the threads of the
                \* second pass

vars == <<phase, node_data, nodes, closest, ci, ch, con_index, file_cl, file_gs, rounds, history, par, que>>

\* ---------------------------------------------------------------- bounds
MaxWeight == 2
MaxNewWeight == 3
MaxUpdates == 2

\* ------------------------------------------------------- program constants
NO_NODE == 0
MAX_CUT_LEVEL == 58
CONTRACTED == 65535
\* Graph::extend_cut_index reads dist_index[cut_level - 1] at level 0, the two
\* bytes in front of the block that dist_index.reserve(32) allocated.  In the
\* allocator of the build these are the upper bytes of the block's size word.
heap_word == 0

\* ------------------------------------------------------ machine arithmetic
\* distance_t is an unsigned 32 bit integer.  A value x is held as the signed
\* reading of its 32 bit pattern (x itself below 2^31, x - 2^32 from 2^31 on),
\* so that addition modulo 2^32 is integer addition, UINT32_MAX is -1 and
\* UINT32_MAX + w is w - 1.  The order of distance_t is the unsigned order.
infinity == -1
DAdd(a, b) == a + b
DLess(a, b) == IF (a < 0) = (b < 0) THEN a < b ELSE b < 0
DLeq(a, b) == a = b \/ DLess(a, b)
DMin(a, b) == IF DLess(b, a) THEN b ELSE a
\* uint16_t
U16(x) == x % 65536
Min(a, b) == IF a < b THEN a ELSE b
Max(a, b) == IF a < b THEN b ELSE a

\* -------------------------------------------------------- sequence helpers
\* function constructors are evaluated into explicit sequences and functions
AsSeq(f) == f \o <<>>
AsFcn(f) == f @@ <<>>
\* F applied to the value of x, which is computed once
With(x, F(_)) == CHOOSE y \in {F(v) : v \in {x}} : TRUE
Filter(s, Keep(_)) == SelectSeq(s, Keep)
Range(s) == {s[i] : i \in 1..Len(s)}
Without(s, X) == SelectSeq(s, LAMBDA v : v \notin X)
IndexOf(s, x) == CHOOSE i \in 1..Len(s) : s[i] = x
\* std::sort on distinct integer keys
RECURSIVE SortedSeq(_)
SortedSeq(S) ==
    IF S = {} THEN <<>>
    ELSE LET m == CHOOSE x \in S : \A y \in S : x <= y
         IN <<m>> \o SortedSeq(S \ {m})

\* ------------------------------------------------------------ input graphs
\* the "a v w d" lines of the input file, in file order, under "p sp n m"
Topologies == {
    \* a path: a tree, contracted to a single vertex
    [n |-> 3, arcs |-> <<<<1, 2>>, <<2, 3>>>>, heavy |-> {1, 2}],
    \* a cycle of four vertices
    [n |-> 4, arcs |-> <<<<1, 2>>, <<1, 3>>, <<2, 4>>, <<3, 4>>>>, heavy |-> {1, 2, 3, 4}],
    \* a triangle with a pendant tree
    [n |-> 6, arcs |-> <<<<1, 2>>, <<2, 3>>, <<3, 1>>, <<3, 4>>, <<4, 5>>, <<4, 6>>>>, heavy |-> {1, 5}],
    \* a path and a separate edge: two connected components
    [n |-> 5, arcs |-> <<<<1, 2>>, <<2, 3>>, <<4, 5>>>>, heavy |-> {3}],
    \* a cycle of five vertices
    [n |-> 5, arcs |-> <<<<1, 4>>, <<1, 5>>, <<2, 3>>, <<2, 5>>, <<3, 4>>>>, heavy |-> {1}],
    \* a cycle of four vertices sharing a vertex with a triangle
    [n |-> 6, arcs |-> <<<<1, 3>>, <<1, 6>>, <<2, 3>>, <<2, 6>>, <<3, 4>>, <<3, 5>>, <<4, 5>>>>,
     heavy |-> {7}],
    \* a path whose first edge is listed twice, once in each direction
    [n |-> 3, arcs |-> <<<<1, 2>>, <<2, 1>>, <<2, 3>>>>, heavy |-> {1, 2}],
    \* a triangle
    [n |-> 3, arcs |-> <<<<1, 2>>, <<1, 3>>, <<2, 3>>>>, heavy |-> {1, 2, 3}]
}
\* every arc has weight 1, the arcs listed as heavy any weight up to MaxWeight
Inputs == UNION {
    {[n |-> t.n, arcs |-> AsSeq([i \in 1..Len(t.arcs) |-> <<t.arcs[i][1], t.arcs[i][2], w[i]>>])] :
        w \in {x \in [1..Len(t.arcs) -> 1..MaxWeight] :
                    \A i \in 1..Len(t.arcs) : i \notin t.heavy => x[i] = 1}} : t \in Topologies}

Neighbor(v, d) == [node |-> v, distance |-> d]

\* add_edge that overwrites the weight of an existing entry
add_edge1_overwrite(nd, v, w, d) ==
    IF \E i \in 1..Len(nd[v]) : nd[v][i].node = w
    THEN LET i == CHOOSE j \in 1..Len(nd[v]) : nd[v][j].node = w
         IN [nd EXCEPT ![v][i].distance = d]
    ELSE [nd EXCEPT ![v] = Append(@, Neighbor(w, d))]
\* Graph::add_edge without the reverse direction: keep the minimum of parallel arcs
add_edge1(nd, v, w, d) ==
    IF \E i \in 1..Len(nd[v]) : nd[v][i].node = w
    THEN LET i == CHOOSE j \in 1..Len(nd[v]) : nd[v][j].node = w
         IN [nd EXCEPT ![v][i].distance = Min(@, d)]
    ELSE [nd EXCEPT ![v] = Append(@, Neighbor(w, d))]
add_edge(nd, v, w, d) == add_edge1(add_edge1(nd, v, w, d), w, v, d)

RECURSIVE read_arcs(_, _, _)
read_arcs(nd, arcs, i) ==
    IF i > Len(arcs) THEN nd
    ELSE read_arcs(add_edge(nd, arcs[i][1], arcs[i][2], arcs[i][3]), arcs, i + 1)

\* read_graph: resize, add every arc with its reverse, remove_isolated
read_graph(in) ==
    LET nd == read_arcs(AsSeq([v \in 1..in.n |-> <<>>]), in.arcs, 1)
    IN [node_data |-> nd,
        nodes |-> Filter(AsSeq([v \in 1..in.n |-> v]), LAMBDA v : Len(nd[v]) > 0)]

\* Graph::single_neighbor within the vertex set S
single_neighbor(nd, S, v) ==
    LET in == Filter(nd[v], LAMBDA e : e.node \in S)
    IN IF Len(in) = 1 THEN in[1] ELSE Neighbor(NO_NODE, 0)

\* one call of the find_degree_one helper of Graph::contract
RECURSIVE find_degree_one(_, _, _, _, _)
find_degree_one(nd, S, list, i, acc) ==
    IF i > Len(list) THEN acc
    ELSE LET node == list[i]
             nb == single_neighbor(nd, S, node)
         IN IF nb.node # NO_NODE /\ single_neighbor(nd, S, nb.node).node = NO_NODE
            THEN find_degree_one(nd, S, list, i + 1,
                    [closest |-> [acc.closest EXCEPT ![node] = nb],
                     degree_one |-> Append(acc.degree_one, node),
                     neighbors |-> Append(acc.neighbors, nb.node)])
            ELSE find_degree_one(nd, S, list, i + 1, acc)

\* Graph::contract: repeated removal of degree one vertices
RECURSIVE contract_loop(_, _, _, _)
contract_loop(nd, ns, cl, list) ==
    LET r == find_degree_one(nd, Range(ns), list, 1,
                [closest |-> cl, degree_one |-> <<>>, neighbors |-> <<>>])
    IN IF r.degree_one = <<>> THEN [nodes |-> ns, closest |-> r.closest]
       ELSE contract_loop(nd, Without(ns, Range(r.degree_one)),
                          r.closest, r.neighbors)
contract(nd, ns) ==
    contract_loop(nd, ns,
        AsSeq([v \in DOMAIN nd |-> IF v \in Range(ns) THEN Neighbor(v, 0) ELSE Neighbor(NO_NODE, 0)]),
        ns)

\* ------------------------------------------------------------ partitioning
\* std::sort with a strict weak order; on the short vectors of this model the
\* library sorts by insertion, which keeps equivalent elements in their order
SortWith(s, Less(_, _)) ==
    AsSeq([r \in 1..Len(s) |->
        s[CHOOSE i \in 1..Len(s) :
            Cardinality({j \in 1..Len(s) : Less(s[j], s[i]) \/ (~Less(s[i], s[j]) /\ j < i)}) = r - 1]])

\* Graph::run_bfs from v within S: hop distances, infinity where unreachable
RECURSIVE bfs_from(_, _, _, _, _)
bfs_from(nd, S, dist, frontier, d) ==
    IF frontier = {} THEN dist
    ELSE LET next == {w \in S : dist[w] = infinity
                                /\ \E u \in frontier : \E i \in 1..Len(nd[u]) : nd[u][i].node = w}
         IN bfs_from(nd, S, AsFcn([w \in S |-> IF w \in next THEN d + 1 ELSE dist[w]]), next, d + 1)
run_bfs(nd, S, v) ==
    bfs_from(nd, S, AsFcn([w \in S |-> IF w = v THEN 0 ELSE infinity]), {v}, 0)

\* Graph::get_furthest: first vertex in the order of nodes whose distance is maximal
RECURSIVE furthest_scan(_, _, _, _)
furthest_scan(ns, dist, i, furthest) ==
    IF i > Len(ns) THEN furthest
    ELSE furthest_scan(ns, dist, i + 1,
            IF DLess(dist[furthest], dist[ns[i]]) THEN ns[i] ELSE furthest)
get_furthest(nd, ns, v) == furthest_scan(ns, run_bfs(nd, Range(ns), v), 1, v)

\* Graph::get_connected_components: depth first search with an explicit stack
RECURSIVE cc_push(_, _, _, _, _, _)
cc_push(nb, S, k, seen, stack, i) ==
    IF i > k THEN [seen |-> seen, stack |-> stack]
    ELSE LET w == nb[i].node
         IN IF w \in S /\ w \notin seen
            THEN cc_push(nb, S, k, seen \cup {w}, Append(stack, w), i + 1)
            ELSE cc_push(nb, S, k, seen, stack, i + 1)
RECURSIVE cc_dfs(_, _, _, _, _)
cc_dfs(nd, S, seen, stack, cc) ==
    IF stack = <<>> THEN [seen |-> seen, cc |-> cc]
    ELSE LET node == stack[Len(stack)]
             r == cc_push(nd[node], S, Len(nd[node]), seen, SubSeq(stack, 1, Len(stack) - 1), 1)
         IN cc_dfs(nd, S, r.seen, r.stack, Append(cc, node))
RECURSIVE cc_scan(_, _, _, _, _)
cc_scan(nd, ns, i, seen, comps) ==
    IF i > Len(ns) THEN comps
    ELSE IF ns[i] \in seen THEN cc_scan(nd, ns, i + 1, seen, comps)
    ELSE LET r == cc_dfs(nd, Range(ns), seen \cup {ns[i]}, <<ns[i]>>, <<>>)
         IN cc_scan(nd, ns, i + 1, r.seen, Append(comps, r.cc))
get_connected_components(nd, ns) == cc_scan(nd, ns, 1, {}, <<>>)

cmp_size_desc(a, b) == Len(a) > Len(b)

\* add_to_smaller for every component in turn
RECURSIVE distribute(_, _, _, _)
distribute(ccs, i, left, right) ==
    IF i > Len(ccs) THEN [left |-> left, right |-> right]
    ELSE IF Len(left) <= Len(right)
         THEN distribute(ccs, i + 1, ccs[i] \o left, right)
         ELSE distribute(ccs, i + 1, left, ccs[i] \o right)

\* DiffData of every vertex for the extreme points a and b
get_diff_data(nd, ns, a, b) ==
    LET da == run_bfs(nd, Range(ns), a)
        db == run_bfs(nd, Range(ns), b)
    IN AsSeq([i \in 1..Len(ns) |-> [node |-> ns[i], dist_a |-> da[ns[i]], dist_b |-> db[ns[i]]]])
diff_of(dd) == dd.dist_a - dd.dist_b
cmp_diff(x, y) == diff_of(x) < diff_of(y)

\* balance = 0.2: min(n / 2, ceil(n * balance))
max_left_of(n) == Min(n \div 2, (n + 4) \div 5)

RECURSIVE grow_left(_, _)
grow_left(diff, ml) ==
    IF diff_of(diff[ml]) = diff_of(diff[ml + 1]) THEN grow_left(diff, ml + 1) ELSE ml
RECURSIVE shrink_right(_, _)
shrink_right(diff, mr) ==
    IF diff_of(diff[mr]) = diff_of(diff[mr + 1]) THEN shrink_right(diff, mr - 1) ELSE mr

\* Graph::get_rough_partition: the set of results over the draws of random_node().
\* A result carries the partition, the return value and the order Graph::nodes is left in.
RECURSIVE get_rough_partition(_, _, _)
get_rough_partition(nd, ns, disconnected) ==
    LET cc == SortWith(get_connected_components(nd, ns), cmp_size_desc)
    IN IF disconnected /\ Len(cc) > 1
       THEN IF 10 * Len(cc[1]) < 9 * Len(ns)
            THEN LET d == distribute(cc, 1, <<>>, <<>>)
                 IN {[left |-> d.left, cut |-> <<>>, right |-> d.right, fine |-> TRUE, nodes |-> ns]}
            ELSE {IF r.fine
                  THEN LET d == distribute(cc, 2, r.left, r.right)
                       IN [left |-> d.left, cut |-> r.cut, right |-> d.right, fine |-> TRUE, nodes |-> ns]
                  ELSE [r EXCEPT !.nodes = ns] : r \in get_rough_partition(nd, cc[1], FALSE)}
       ELSE UNION {
          With(get_furthest(nd, ns, start), LAMBDA a :
          With(get_furthest(nd, ns, a), LAMBDA b :
          With(SortWith(get_diff_data(nd, ns, a, b), cmp_diff), LAMBDA diff :
          LET max_left == max_left_of(Len(ns))
              min_right == Len(ns) - max_left
          IN IF diff_of(diff[max_left]) = diff_of(diff[min_right + 1])
             THEN LET center == diff_of(diff[min_right + 1])
                      cand == {i \in 1..Len(diff) : diff_of(diff[i]) = center}
                      dmin(i) == DMin(diff[i].dist_a, diff[i].dist_b)
                      min_dist == dmin(CHOOSE i \in cand : \A j \in cand : DLeq(dmin(i), dmin(j)))
                      bottlenecks == SortedSeq({diff[i].node : i \in {j \in cand : dmin(j) = min_dist}})
                      rest == Without(ns, Range(bottlenecks))
                  IN {[left |-> r.left, cut |-> r.cut \o bottlenecks, right |-> r.right,
                       fine |-> r.fine /\ r.cut = <<>>, nodes |-> r.nodes \o bottlenecks]
                        : r \in UNION {get_rough_partition(nd, x, TRUE) : x \in {rest}}}
             ELSE LET ml == grow_left(diff, max_left)
                      mr == shrink_right(diff, min_right)
                  IN {[left |-> AsSeq([i \in 1..ml |-> diff[i].node]),
                       cut |-> AsSeq([i \in 1..(mr - ml) |-> diff[ml + i].node]),
                       right |-> AsSeq([i \in 1..(Len(diff) - mr) |-> diff[mr + i].node]),
                       fine |-> FALSE, nodes |-> ns]})))
          : start \in Range(ns)}

\* ------------------------------------------------------- minimum vertex cut
\* The flow graph state: distance and outcopy_distance of the split vertices,
\* inflow and outflow of the current flow.  s and t are the two extra vertices.
FlowNode(v, oc) == [node |-> v, outcopy |-> oc]

\* update_distance on field f of vertex v; the second component tells whether it changed
upd(st, f, v, d) == IF DLess(d, st[f][v]) THEN [st EXCEPT ![f][v] = d] ELSE st
lowers(st, f, v, d) == DLess(d, st[f][v])

\* the neighbour loop of Graph::run_flow_bfs_from_t for a vertex with flow-out vertex outflow
RECURSIVE flow_scan_t(_, _, _, _, _, _, _)
flow_scan_t(nb, S, outflow, d, st, q, k) ==
    IF k > Len(nb) THEN [st |-> st, q |-> q]
    ELSE LET n == nb[k].node
         IN IF n \notin S THEN flow_scan_t(nb, S, outflow, d, st, q, k + 1)
            ELSE IF n = outflow
            THEN IF lowers(st, "distance", n, d)
                 THEN flow_scan_t(nb, S, outflow, d,
                        upd(upd(st, "distance", n, d), "outcopy_distance", n, d),
                        Append(q, FlowNode(n, FALSE)), k + 1)
                 ELSE flow_scan_t(nb, S, outflow, d, st, q, k + 1)
            ELSE IF lowers(st, "outcopy_distance", n, d)
                 THEN flow_scan_t(nb, S, outflow, d,
                        IF st.outflow[n] = NO_NODE
                        THEN upd(upd(st, "outcopy_distance", n, d), "distance", n, d)
                        ELSE upd(st, "outcopy_distance", n, d),
                        Append(q, FlowNode(n, TRUE)), k + 1)
                 ELSE flow_scan_t(nb, S, outflow, d, st, q, k + 1)

\* Graph::run_flow_bfs_from_t
RECURSIVE flow_bfs_t_loop(_, _, _, _)
flow_bfs_t_loop(nd, S, st, q) ==
    IF q = <<>> THEN st
    ELSE LET fn == Head(q)
             fn_dist == IF fn.outcopy THEN st.outcopy_distance[fn.node] ELSE st.distance[fn.node]
             outflow == st.outflow[fn.node]
         IN IF outflow # NO_NODE /\ fn.outcopy
            THEN IF lowers(st, "distance", outflow, fn_dist + 1)
                 THEN flow_bfs_t_loop(nd, S,
                        upd(upd(st, "distance", outflow, fn_dist + 1), "outcopy_distance", outflow, fn_dist + 1),
                        Append(Tail(q), FlowNode(outflow, FALSE)))
                 ELSE flow_bfs_t_loop(nd, S, st, Tail(q))
            ELSE LET r == flow_scan_t(nd[fn.node], S, outflow, fn_dist + 1, st, Tail(q), 1)
                 IN flow_bfs_t_loop(nd, S, r.st, r.q)
run_flow_bfs_from_t(nd, S, s, t, flow) ==
    LET start == SelectSeq(nd[t], LAMBDA e : e.node \in S /\ flow.outflow[e.node] # t)
        first == {start[i].node : i \in 1..Len(start)}
        st == [distance |-> AsFcn([v \in S |-> IF v = t THEN 0 ELSE IF v \in first THEN 1 ELSE infinity]),
               outcopy_distance |-> AsFcn([v \in S |-> IF v = t THEN 0 ELSE IF v \in first THEN 1 ELSE infinity]),
               inflow |-> flow.inflow, outflow |-> flow.outflow]
    IN flow_bfs_t_loop(nd, S, st, AsSeq([i \in 1..Len(start) |-> FlowNode(start[i].node, TRUE)]))

\* the neighbour loop of Graph::run_flow_bfs_from_s for a vertex with flow-in vertex inflow
RECURSIVE flow_scan_s(_, _, _, _, _, _, _)
flow_scan_s(nb, S, inflow, d, st, q, k) ==
    IF k > Len(nb) THEN [st |-> st, q |-> q]
    ELSE LET n == nb[k].node
         IN IF n \notin S THEN flow_scan_s(nb, S, inflow, d, st, q, k + 1)
            ELSE IF n = inflow
            THEN IF lowers(st, "outcopy_distance", n, d)
                 THEN flow_scan_s(nb, S, inflow, d,
                        upd(upd(st, "outcopy_distance", n, d), "distance", n, d),
                        Append(q, FlowNode(n, TRUE)), k + 1)
                 ELSE flow_scan_s(nb, S, inflow, d, st, q, k + 1)
            ELSE IF lowers(st, "distance", n, d)
                 THEN flow_scan_s(nb, S, inflow, d,
                        IF st.inflow[n] = NO_NODE
                        THEN upd(upd(st, "distance", n, d), "outcopy_distance", n, d)
                        ELSE upd(st, "distance", n, d),
                        Append(q, FlowNode(n, FALSE)), k + 1)
                 ELSE flow_scan_s(nb, S, inflow, d, st, q, k + 1)

\* Graph::run_flow_bfs_from_s
RECURSIVE flow_bfs_s_loop(_, _, _, _)
flow_bfs_s_loop(nd, S, st, q) ==
    IF q = <<>> THEN st
    ELSE LET fn == Head(q)
             fn_dist == IF fn.outcopy THEN st.outcopy_distance[fn.node] ELSE st.distance[fn.node]
             inflow == st.inflow[fn.node]
         IN IF inflow # NO_NODE /\ ~fn.outcopy
            THEN IF lowers(st, "outcopy_distance", inflow, fn_dist + 1)
                 THEN flow_bfs_s_loop(nd, S,
                        upd(upd(st, "outcopy_distance", inflow, fn_dist + 1), "distance", inflow, fn_dist + 1),
                        Append(Tail(q), FlowNode(inflow, TRUE)))
                 ELSE flow_bfs_s_loop(nd, S, st, Tail(q))
            ELSE LET r == flow_scan_s(nd[fn.node], S, inflow, fn_dist + 1, st, Tail(q), 1)
                 IN flow_bfs_s_loop(nd, S, r.st, r.q)
run_flow_bfs_from_s(nd, S, s, t, flow) ==
    LET start == SelectSeq(nd[s], LAMBDA e : e.node \in S /\ flow.inflow[e.node] # s)
        first == {start[i].node : i \in 1..Len(start)}
        st == [distance |-> AsFcn([v \in S |-> IF v = t THEN 0 ELSE IF v \in first THEN 1 ELSE infinity]),
               outcopy_distance |-> AsFcn([v \in S |-> IF v = t THEN 0 ELSE IF v \in first THEN 1 ELSE infinity]),
               inflow |-> flow.inflow, outflow |-> flow.outflow]
    IN flow_bfs_s_loop(nd, S, st, AsSeq([i \in 1..Len(start) |-> FlowNode(start[i].node, FALSE)]))

\* increase the flow along an s-t path found by the depth first search
RECURSIVE push_flow(_, _, _)
push_flow(st, path, pos) ==
    IF pos > Len(path) THEN st
    ELSE LET from == path[pos - 1]
             to == path[pos]
         IN IF st.outflow[to] = from
            THEN push_flow([st EXCEPT !.outflow[to] = NO_NODE,
                                      !.inflow[from] = IF @ = to THEN NO_NODE ELSE @], path, pos + 1)
            ELSE push_flow([st EXCEPT !.outflow[from] = to, !.inflow[to] = from], path, pos + 1)

\* the neighbour loop of the depth first search: push the level graph successors
RECURSIVE dfs_scan(_, _, _, _, _, _, _)
dfs_scan(nb, S, inflow, next_distance, st, stack, k) ==
    IF k > Len(nb) THEN stack
    ELSE LET n == nb[k].node
         IN IF n \notin S THEN dfs_scan(nb, S, inflow, next_distance, st, stack, k + 1)
            ELSE IF n = inflow
            THEN dfs_scan(nb, S, inflow, next_distance, st,
                    IF st.outcopy_distance[inflow] = next_distance
                    THEN Append(stack, FlowNode(inflow, TRUE)) ELSE stack, k + 1)
            ELSE dfs_scan(nb, S, inflow, next_distance, st,
                    IF st.distance[n] = next_distance
                    THEN Append(stack, FlowNode(n, FALSE)) ELSE stack, k + 1)

\* the depth first search of Dinitz' algorithm from one neighbour of s
RECURSIVE flow_dfs(_, _, _, _, _, _, _, _)
flow_dfs(nd, S, s, t, s_distance, st, path, stack) ==
    IF stack = <<>> THEN [st |-> st, path |-> path]
    ELSE LET fn == stack[Len(stack)]
             rest == SubSeq(stack, 1, Len(stack) - 1)
             fn_dist == IF fn.outcopy THEN st.outcopy_distance[fn.node] ELSE st.distance[fn.node]
         IN IF fn_dist = infinity THEN flow_dfs(nd, S, s, t, s_distance, st, path, rest)
            ELSE LET cut_path == SubSeq(path, 1, s_distance - fn_dist - 1)
                 IN IF fn.node = t
                    THEN LET st1 == [st EXCEPT !.inflow[cut_path[1]] = s]
                             st2 == push_flow(st1, cut_path, 2)
                         IN [st |-> [st2 EXCEPT !.outflow[cut_path[Len(cut_path)]] = t], path |-> <<>>]
                    ELSE LET st1 == IF fn.outcopy
                                    THEN [st EXCEPT !.outcopy_distance[fn.node] = infinity]
                                    ELSE [st EXCEPT !.distance[fn.node] = infinity]
                             next_distance == fn_dist - 1
                             inflow == st.inflow[fn.node]
                             stack1 == IF inflow # NO_NODE /\ ~fn.outcopy
                                       THEN IF st1.outcopy_distance[inflow] = next_distance
                                            THEN Append(rest, FlowNode(inflow, TRUE))
                                            ELSE rest
                                       ELSE dfs_scan(nd[fn.node], S, inflow, next_distance, st1, rest, 1)
                         IN flow_dfs(nd, S, s, t, s_distance, st1, Append(cut_path, fn.node), stack1)

\* one phase of Dinitz' algorithm: a search from every neighbour of s in turn
RECURSIVE flow_phase(_, _, _, _, _, _, _, _)
flow_phase(nd, S, s, t, s_distance, st, path, k) ==
    IF k > Len(nd[s]) THEN st
    ELSE LET sn == nd[s][k].node
         IN IF sn \notin S \/ st.distance[sn] # s_distance - 1 \/ st.inflow[sn] # NO_NODE
            THEN flow_phase(nd, S, s, t, s_distance, st, path, k + 1)
            ELSE LET r == flow_dfs(nd, S, s, t, s_distance, st, path, <<FlowNode(sn, FALSE)>>)
                 IN flow_phase(nd, S, s, t, s_distance, r.st, r.path, k + 1)

\* the maximum flow loop of Graph::min_vertex_cuts; returns the state of the
\* last search from t, in which s is not reached
RECURSIVE max_flow(_, _, _, _, _)
max_flow(nd, S, s, t, flow) ==
    With(run_flow_bfs_from_t(nd, S, s, t, flow), LAMBDA st :
        IF st.outcopy_distance[s] = infinity THEN st
        ELSE max_flow(nd, S, s, t, flow_phase(nd, S, s, t, st.outcopy_distance[s], st, <<>>, 1)))

\* min_vertex_cuts that returns every vertex a flow path passes
min_vertex_cuts_paths(nd, ns, s, t) ==
    LET S == Range(ns)
        none == AsFcn([v \in S |-> NO_NODE])
    IN With(max_flow(nd, S, s, t, [inflow |-> none, outflow |-> none]), LAMBDA ft :
            <<SelectSeq(ns, LAMBDA v : ft.outflow[v] # NO_NODE)>>)
\* Graph::min_vertex_cuts over the flow graph with vertices ns (s and t among them)
min_vertex_cuts(nd, ns, s, t) ==
    LET S == Range(ns)
        none == AsFcn([v \in S |-> NO_NODE])
    IN With(max_flow(nd, S, s, t, [inflow |-> none, outflow |-> none]), LAMBDA ft :
       With(run_flow_bfs_from_s(nd, S, s, t, ft), LAMBDA fs :
       LET cut0 == SelectSeq(ns, LAMBDA v :
                    /\ ft.outflow[v] # NO_NODE
                    /\ IF ft.outcopy_distance[v] # infinity
                       THEN ft.distance[v] = infinity
                       ELSE ft.outflow[v] = t)
           cut1 == SelectSeq(ns, LAMBDA v :
                    /\ fs.inflow[v] # NO_NODE
                    /\ IF fs.distance[v] # infinity
                       THEN fs.outcopy_distance[v] = infinity
                       ELSE fs.inflow[v] = s)
       IN IF cut0 = cut1 THEN <<cut0>> ELSE <<cut0, cut1>>))

\* util::make_set on vertex ids
make_set(v) == SortedSeq(Range(v))

\* append the edge s-v (or t-v) of length one to both neighbour lists
RECURSIVE add_terminal(_, _, _, _)
add_terminal(nd, term, vs, i) ==
    IF i > Len(vs) THEN nd
    ELSE add_terminal(add_edge(nd, term, vs[i], 1), term, vs, i + 1)

\* Graph::rough_partition_to_cuts, the flow graph: the vertices of both sides
\* that touch the other side join the cut, s and t are attached to them
rough_partition_graph(nd, p) ==
    LET s == Len(nd) + 1
        t == Len(nd) + 2
        adj(v, T) == \E i \in 1..Len(nd[v]) : nd[v][i].node \in T
        L0 == Range(p.left)
        R0 == Range(p.right)
        s_nb0 == make_set(SelectSeq(p.left, LAMBDA v : adj(v, R0)))
        t_nb0 == make_set(SelectSeq(p.right, LAMBDA v : adj(v, L0)))
        left == L0 \ Range(s_nb0)
        right == R0 \ Range(t_nb0)
        center == p.cut \o <<s, t>> \o s_nb0 \o t_nb0
        C == Range(center)
        s_neighbors == SortedSeq(Range(s_nb0) \cup {w \in C \ {s, t} : adj(w, left)})
        t_neighbors == SortedSeq(Range(t_nb0) \cup {w \in C \ {s, t} : adj(w, right)})
        nd0 == AsSeq([v \in 1..(Len(nd) + 2) |-> IF v <= Len(nd) THEN nd[v] ELSE <<>>])
    IN [nd |-> add_terminal(add_terminal(nd0, s, s_neighbors, 1), t, t_neighbors, 1),
        center |-> center, s |-> s, t |-> t]
\* Graph::rough_partition_to_cuts
rough_partition_to_cuts(nd, p) ==
    With(rough_partition_graph(nd, p), LAMBDA g : min_vertex_cuts(g.nd, g.center, g.s, g.t))

\* complete_partition that leaves out the component search
complete_partition_halves(nd, ns, cut) ==
    LET c == make_set(cut)
        rest == Without(ns, Range(c))
    IN [left |-> SubSeq(rest, 1, Len(rest) \div 2), cut |-> c,
        right |-> SubSeq(rest, Len(rest) \div 2 + 1, Len(rest)), nodes |-> rest \o c]
\* Graph::complete_partition for the cut vertices in cut
complete_partition(nd, ns, cut) ==
    LET c == make_set(cut)
        rest == Without(ns, Range(c))
        cc == SortWith(get_connected_components(nd, rest), cmp_size_desc)
        d == distribute(cc, 1, <<>>, <<>>)
    IN [left |-> d.left, cut |-> c, right |-> d.right, nodes |-> rest \o c]

\* p.rating() < q.rating() for rating = min(l, r) / (c * c + 1)
rating_less(p, q) ==
    Min(Len(p.left), Len(p.right)) * (Len(q.cut) * Len(q.cut) + 1)
        < Min(Len(q.left), Len(q.right)) * (Len(p.cut) * Len(p.cut) + 1)

\* Graph::create_partition: the set of partitions it can return
create_partition(nd, ns) ==
    {IF r.fine THEN [left |-> r.left, cut |-> r.cut, right |-> r.right]
     ELSE With(rough_partition_to_cuts(nd, r), LAMBDA cuts :
          With(complete_partition(nd, r.nodes, cuts[1]), LAMBDA p :
          With(IF Len(cuts) > 1 /\ rating_less(p, complete_partition(nd, p.nodes, cuts[Len(cuts)]))
               THEN complete_partition(nd, p.nodes, cuts[Len(cuts)]) ELSE p, LAMBDA best :
          [left |-> best.left, cut |-> best.cut, right |-> best.right])))
     : r \in get_rough_partition(nd, ns, TRUE)}

\* ------------------------------------------------------------- cut index
CutIndex == [partition |-> 0, cut_level |-> 0, dist_index |-> <<>>, distances |-> <<>>, paths |-> <<>>]

\* 1 << k
RECURSIVE Pow2(_)
Pow2(k) == IF k = 0 THEN 1 ELSE 2 * Pow2(k - 1)

\* the dist_index, cut_level and partition updates of Graph::extend_cut_index
\* for partition p at level cut_level.  At level 0 the entry dist_index[cut_level - 1]
\* lies before the reserved buffer; stale is the value found there.
label_cut(cx, ns, p, cut_level, stale) ==
    AsSeq([v \in DOMAIN cx |->
        IF v \notin Range(ns) THEN cx[v]
        ELSE LET prev == IF cut_level = 0 THEN stale ELSE cx[v].dist_index[cut_level]
                 add == IF v \in Range(p.cut) THEN IndexOf(p.cut, v) ELSE Len(p.cut)
             IN [cx[v] EXCEPT
                    !.dist_index = Append(@, U16(prev + add)),
                    !.cut_level = IF v \in Range(p.cut) THEN cut_level ELSE @,
                    !.partition = IF v \in Range(p.right) THEN @ + Pow2(cut_level) ELSE @]])

\* Graph::extend_cut_index with both calls of extend_on_partition: the set of
\* cut indexes it can leave behind
RECURSIVE extend_cut_index(_, _, _, _, _)
extend_on_partition(nd, cxs, part, cut_level, stale) ==
    IF Len(part) > 1
    THEN UNION {extend_cut_index(nd, cx, part, cut_level + 1, stale) : cx \in cxs}
    ELSE IF Len(part) = 1
    THEN {[cx EXCEPT ![part[1]].cut_level = cut_level + 1,
                     ![part[1]].dist_index = Append(@, U16(@[cut_level + 1] + 1))] : cx \in cxs}
    ELSE cxs
extend_cut_index(nd, cx, ns, cut_level, stale) ==
    IF Len(ns) < 2
    THEN {AsSeq([v \in DOMAIN cx |-> IF v \in Range(ns)
                               THEN [cx[v] EXCEPT !.cut_level = 0, !.dist_index = Append(@, 0)]
                               ELSE cx[v]])}
    ELSE UNION {
        LET cx1 == label_cut(cx, ns, p, cut_level, stale)
            cxl == extend_on_partition(nd, {cx1}, p.left, cut_level, stale)
        IN extend_on_partition(nd, cxl, p.right, cut_level, stale)
        : p \in IF cut_level < MAX_CUT_LEVEL THEN create_partition(nd, ns)
                ELSE {[left |-> <<>>, cut |-> ns, right |-> <<>>]}}

\* Graph::create_cut_index
create_cut_index(nd, ns, stale) ==
    extend_cut_index(nd, AsSeq([v \in DOMAIN nd |-> CutIndex]), ns, 0, stale)

\* ---------------------------------------------------------- shortcut graph
UpN(v, d, c) == [node |-> v, distance |-> d, path_count |-> c]
CHNode == [dist_index |-> 0, up_neighbors |-> <<>>, down_neighbors |-> <<>>]

\* write (d, c) into label slot i (counted from 0) of vertex v
set_label(cx, v, i, d, c) == [cx EXCEPT ![v].distances[i + 1] = d, ![v].paths[i + 1] = c]

\* create_sc_graph, first loop: node order of the hierarchy and empty labels
sc_init(ns, cl, cx) ==
    LET di(v) == IF cl[v].node = v THEN U16(cx[v].dist_index[cx[v].cut_level + 1] - 1) ELSE CONTRACTED
    IN [ch |-> AsSeq([v \in DOMAIN cx |-> IF v \in Range(ns) THEN [CHNode EXCEPT !.dist_index = di(v)] ELSE CHNode]),
        cx |-> AsSeq([v \in DOMAIN cx |->
                    IF v \in Range(ns) /\ cl[v].node = v
                    THEN [cx[v] EXCEPT !.distances = AsSeq([i \in 1..di(v) |-> infinity]),
                                       !.paths = AsSeq([i \in 1..di(v) |-> 0])]
                    ELSE cx[v]]),
        bottom_up_nodes |-> SelectSeq(ns, LAMBDA v : cl[v].node = v)]

\* create_sc_graph, second loop: the upward graph edges of one vertex
RECURSIVE sc_seed(_, _, _, _, _)
sc_seed(nb, cl, node, st, k) ==
    IF k > Len(nb) THEN st
    ELSE LET n == nb[k]
         IN IF cl[n.node].node = n.node /\ st.ch[n.node].dist_index < st.ch[node].dist_index
            THEN With([st EXCEPT !.ch[node].up_neighbors = Append(@, UpN(n.node, n.distance, 1)),
                                 !.cx = set_label(@, node, st.ch[n.node].dist_index, n.distance, 1)],
                      LAMBDA st1 : sc_seed(nb, cl, node, st1, k + 1))
            ELSE sc_seed(nb, cl, node, st, k + 1)
RECURSIVE sc_seed_all(_, _, _, _)
sc_seed_all(nd, cl, st, k) ==
    IF k > Len(st.bottom_up_nodes) THEN st
    ELSE With(sc_seed(nd[st.bottom_up_nodes[k]], cl, st.bottom_up_nodes[k], st, 1),
              LAMBDA st1 : sc_seed_all(nd, cl, st1, k + 1))

\* util::make_set(v, comp): sort, then keep the first entry of every run of one node
RECURSIVE unique_node(_, _, _)
unique_node(v, k, acc) ==
    IF k > Len(v) THEN acc
    ELSE unique_node(v, k + 1,
            IF acc # <<>> /\ acc[Len(acc)].node = v[k].node THEN acc ELSE Append(acc, v[k]))

\* the shortcuts between the pairs up[i], up[j], i < j, of one vertex
\* sc_pairs with the shortcut of the pair recorded towards up[i] instead of up[j]
RECURSIVE sc_pairs_wrong_end(_, _, _, _)
sc_pairs_wrong_end(up, st, i, j) ==
    IF i >= Len(up) THEN st
    ELSE IF j > Len(up) THEN sc_pairs_wrong_end(up, st, i + 1, i + 2)
    ELSE LET a == up[i].node
             slot == st.ch[up[j].node].dist_index
             weight == DAdd(up[i].distance, up[j].distance)
             path_count == up[i].path_count * up[j].path_count
             old == st.cx[a].distances[slot + 1]
         IN IF DLess(weight, old)
            THEN With([st EXCEPT !.ch[a].up_neighbors = Append(@, UpN(up[i].node, weight, U16(path_count))),
                                 !.cx = set_label(@, a, slot, weight, U16(path_count))],
                      LAMBDA st1 : sc_pairs_wrong_end(up, st1, i, j + 1))
            ELSE IF weight = old
            THEN LET sum == U16(st.cx[a].paths[slot + 1] + path_count)
                 IN With([st EXCEPT !.ch[a].up_neighbors = Append(@, UpN(up[i].node, weight, sum)),
                                   !.cx = set_label(@, a, slot, weight, sum)],
                         LAMBDA st1 : sc_pairs_wrong_end(up, st1, i, j + 1))
            ELSE sc_pairs_wrong_end(up, st, i, j + 1)

\* a second loop that appends no shortcut
sc_pairs_none(up, st, i, j) == st

RECURSIVE sc_pairs(_, _, _, _)
sc_pairs(up, st, i, j) ==
    IF i >= Len(up) THEN st
    ELSE IF j > Len(up) THEN sc_pairs(up, st, i + 1, i + 2)
    ELSE LET a == up[i].node
             slot == st.ch[up[j].node].dist_index
             weight == DAdd(up[i].distance, up[j].distance)
             path_count == up[i].path_count * up[j].path_count
             old == st.cx[a].distances[slot + 1]
         IN IF DLess(weight, old)
            THEN With([st EXCEPT !.ch[a].up_neighbors = Append(@, UpN(up[j].node, weight, U16(path_count))),
                                 !.cx = set_label(@, a, slot, weight, U16(path_count))],
                      LAMBDA st1 : sc_pairs(up, st1, i, j + 1))
            ELSE IF weight = old
            THEN LET sum == U16(st.cx[a].paths[slot + 1] + path_count)
                 IN With([st EXCEPT !.ch[a].up_neighbors = Append(@, UpN(up[j].node, weight, sum)),
                                   !.cx = set_label(@, a, slot, weight, sum)],
                         LAMBDA st1 : sc_pairs(up, st1, i, j + 1))
            ELSE sc_pairs(up, st, i, j + 1)

RECURSIVE sc_down(_, _, _, _)
sc_down(up, node, chx, k) ==
    IF k > Len(up) THEN chx
    ELSE sc_down(up, node, [chx EXCEPT ![up[k].node].down_neighbors = Append(@, node)], k + 1)

\* create_sc_graph, third loop: shortcuts bottom-up and downward neighbours
RECURSIVE sc_bottom_up(_, _, _)
sc_bottom_up(order, st, k) ==
    IF k > Len(order) THEN st
    ELSE LET node == order[k]
             di_order1(x, y) ==
                 \/ st.ch[x.node].dist_index > st.ch[y.node].dist_index
                 \/ /\ st.ch[x.node].dist_index = st.ch[y.node].dist_index
                    /\ \/ DLess(x.distance, y.distance)
                       \/ x.distance = y.distance /\ x.path_count > y.path_count
             up == unique_node(SortWith(st.ch[node].up_neighbors, di_order1), 1, <<>>)
             st1 == sc_pairs(up, [st EXCEPT !.ch[node].up_neighbors = up], 1, 2)
         IN With([st1 EXCEPT !.ch = sc_down(up, node, st1.ch, 1)],
                 LAMBDA st2 : sc_bottom_up(order, st2, k + 1))

\* the label update of x from the slots anc, anc + 1, ... below limit of up neighbour n
RECURSIVE sc_anc(_, _, _, _, _)
sc_anc(cx, x, n, limit, anc) ==
    IF anc >= limit THEN cx
    ELSE LET dist == DAdd(n.distance, cx[n.node].distances[anc + 1])
             path_count == U16(n.path_count * cx[n.node].paths[anc + 1])
             old == cx[x].distances[anc + 1]
         IN With(IF DLess(dist, old) THEN set_label(cx, x, anc, dist, path_count)
                 ELSE IF dist = old
                 THEN [cx EXCEPT ![x].paths[anc + 1] = U16(@ + path_count)]
                 ELSE cx,
                 LAMBDA c1 : sc_anc(c1, x, n, limit, anc + 1))
RECURSIVE sc_up(_, _, _, _, _)
sc_up(chx, cx, x, up, k) ==
    IF k > Len(up) THEN cx
    ELSE With(sc_anc(cx, x, up[k], chx[up[k].node].dist_index, 0),
              LAMBDA c1 : sc_up(chx, c1, x, up, k + 1))

\* create_sc_graph, the labelling threads: buckets in increasing dist_index; the
\* vertices of one bucket touch disjoint labels
RECURSIVE sc_labels(_, _, _, _)
sc_labels(order, chx, cx, k) ==
    IF k > Len(order) THEN cx
    ELSE LET x == order[k]
             c1 == sc_up(chx, cx, x, chx[x].up_neighbors, 1)
         IN With([c1 EXCEPT ![x].distances = Append(@, 0), ![x].paths = Append(@, 1)],
                 LAMBDA c2 : sc_labels(order, chx, c2, k + 1))

\* Graph::create_sc_graph
create_sc_graph(nd, ns, cl, cx) ==
    LET st0 == sc_seed_all(nd, cl, sc_init(ns, cl, cx), 1)
        di_order(a, b) == st0.ch[a].dist_index > st0.ch[b].dist_index
        bucket_order(a, b) == st0.ch[a].dist_index < st0.ch[b].dist_index
        bottom_up_nodes == SortWith(st0.bottom_up_nodes, di_order)
        st1 == sc_bottom_up(bottom_up_nodes, st0, 1)
    IN [ch |-> st1.ch,
        ci |-> sc_labels(SortWith(bottom_up_nodes, bucket_order), st1.ch, st1.cx, 1)]

\* --------------------------------------------------------------- flat index
\* PBV::from for the cut levels of this model (length below 26)
PBV_from(bits, length) == IF length = 0 THEN 0 ELSE (bits % Pow2(length)) * 64 + length
PBV_partition(bv) == bv \div 64
PBV_cut_level(bv) == bv % 64
\* __builtin_ctzll(p1 ^ p2) for p1 # p2
RECURSIVE ctz_xor(_, _)
ctz_xor(p1, p2) == IF p1 % 2 # p2 % 2 THEN 0 ELSE 1 + ctz_xor(p1 \div 2, p2 \div 2)
PBV_lca_level(bv1, bv2) ==
    LET lca_level == Min(PBV_cut_level(bv1), PBV_cut_level(bv2))
        p1 == PBV_partition(bv1)
        p2 == PBV_partition(bv2)
    IN IF p1 # p2 THEN Min(ctz_xor(p1, p2), lca_level) ELSE lca_level

\* aligned<uint32_t>(size), in bytes
aligned(size) == IF size % 4 # 0 THEN size + (4 - (size % 4)) ELSE size

\* The buffer of a FlatCutIndex is held as its sequence of 16 bit units: four
\* units of partition bitvector, the dist_index array padded to a multiple of
\* four bytes, two units (low, high) per distance, one unit per path count.
lo16(d) == d % 65536
hi16(d) == ((d - (d % 65536)) \div 65536) % 65536
dist_of(lo, hi) == (IF hi >= 32768 THEN hi - 65536 ELSE hi) * 65536 + lo
flat_bv(data) == data[1] + 65536 * data[2]
flat_cut_level(data) == PBV_cut_level(flat_bv(data))
flat_partition(data) == PBV_partition(flat_bv(data))
flat_dist_index(data, i) == data[4 + i + 1]
flat_label_count(data) == flat_dist_index(data, flat_cut_level(data))
\* number of units before distances() and before paths()
distances_at(data) == (8 + aligned((flat_cut_level(data) + 1) * 2)) \div 2
paths_at(data) == distances_at(data) + 2 * flat_label_count(data)
flat_distances(data, i) == dist_of(data[distances_at(data) + 2 * i + 1], data[distances_at(data) + 2 * i + 2])
flat_paths(data, i) == data[paths_at(data) + i + 1]
\* FlatCutIndex::size(), in bytes
flat_size(data) ==
    8 + aligned((flat_cut_level(data) + 1) * 2) + flat_label_count(data) * 4 + flat_label_count(data) * 2

\* FlatCutIndex::FlatCutIndex(const CutIndex&): calloc, then the four copies in
\* the order of the code; a later copy overwrites an earlier one
FlatCutIndex(c) ==
    LET data_size == 8 + aligned(Len(c.dist_index) * 2) + Len(c.distances) * 4 + Len(c.paths) * 2
        bv == PBV_from(c.partition, c.cut_level)
        head == AsSeq([k \in 1..(4 + aligned(Len(c.dist_index) * 2) \div 2) |->
                    IF k = 1 THEN bv % 65536
                    ELSE IF k = 2 THEN bv \div 65536
                    ELSE IF k > 4 /\ k - 4 <= Len(c.dist_index) THEN c.dist_index[k - 4]
                    ELSE 0])
        d0 == distances_at(head)
        p0 == paths_at(head)
    IN AsSeq([k \in 1..(data_size \div 2) |->
            IF k > p0 /\ k - p0 <= Len(c.paths) THEN c.paths[k - p0]
            ELSE IF k > d0 /\ k - d0 <= 2 * Len(c.distances)
            THEN IF (k - d0) % 2 = 1 THEN lo16(c.distances[(k - d0 + 1) \div 2])
                 ELSE hi16(c.distances[(k - d0) \div 2])
            ELSE IF k <= Len(head) THEN head[k]
            ELSE 0])

\* a ContractionLabel; cut_index names the vertex whose buffer the label points to
\* (NO_NODE for the null pointer), data is the buffer of a vertex that owns one
ContractionLabel == [cut_index |-> NO_NODE, distance_offset |-> 0, parent |-> NO_NODE, data |-> <<>>]

\* root and root distance of a contracted vertex
RECURSIVE find_root(_, _, _)
find_root(cl, root, root_dist) ==
    IF cl[root].node = root THEN [root |-> root, root_dist |-> root_dist]
    ELSE find_root(cl, cl[root].node, DAdd(root_dist, cl[root].distance))

\* ContractionIndex::ContractionIndex(vector<CutIndex>&, vector<Neighbor>&)
ContractionIndex(cx, cl) ==
    AsSeq([node \in DOMAIN cl |->
        IF cl[node].node = node
        THEN [ContractionLabel EXCEPT !.cut_index = node, !.data = FlatCutIndex(cx[node])]
        ELSE IF cl[node].node # NO_NODE
        THEN LET r == find_root(cl, cl[node].node, cl[node].distance)
             IN [ContractionLabel EXCEPT !.cut_index = r.root,
                                         !.distance_offset = r.root_dist,
                                         !.parent = cl[node].node]
        ELSE ContractionLabel])

\* the buffer a label points to
cut_index_of(labels, v) == labels[labels[v].cut_index].data

\* ------------------------------------------------------------------ queries
\* ContractionIndex::get_distance(FlatCutIndex, FlatCutIndex): the scan of the
\* common label prefix; the sum is taken in 32 bits
RECURSIVE distance_scan(_, _, _, _, _)
distance_scan(a, b, a_end, i, min_dist) ==
    IF i >= a_end THEN min_dist
    ELSE LET dist == DAdd(flat_distances(a, i), flat_distances(b, i))
         IN distance_scan(a, b, a_end, i + 1, IF DLess(dist, min_dist) THEN dist ELSE min_dist)
flat_get_distance(a, b) ==
    LET cut_level == PBV_lca_level(flat_bv(a), flat_bv(b))
    IN distance_scan(a, b, Min(flat_dist_index(a, cut_level), flat_dist_index(b, cut_level)), 0, infinity)

\* ContractionIndex::get_paths
RECURSIVE paths_scan(_, _, _, _, _, _)
paths_scan(a, b, a_end, i, min_dist, spc) ==
    IF i >= a_end THEN spc
    ELSE LET d == DAdd(flat_distances(a, i), flat_distances(b, i))
             c == U16(flat_paths(a, i) * flat_paths(b, i))
         IN IF DLess(d, min_dist) THEN paths_scan(a, b, a_end, i + 1, d, c)
            ELSE IF d = min_dist THEN paths_scan(a, b, a_end, i + 1, min_dist, U16(spc + c))
            ELSE paths_scan(a, b, a_end, i + 1, min_dist, spc)
get_paths(a, b) ==
    LET cut_level == PBV_lca_level(flat_bv(a), flat_bv(b))
    IN paths_scan(a, b, Min(flat_dist_index(a, cut_level), flat_dist_index(b, cut_level)), 0, infinity, 0)

\* the parent walk of ContractionIndex::get_distance: the offset of the lowest
\* common ancestor of two vertices of one contraction tree
RECURSIVE lca_offset(_, _, _)
lca_offset(labels, v_anc, w_anc) ==
    IF v_anc = w_anc THEN labels[v_anc].distance_offset
    ELSE IF DLess(labels[v_anc].distance_offset, labels[w_anc].distance_offset)
    THEN lca_offset(labels, v_anc, labels[w_anc].parent)
    ELSE IF DLess(labels[w_anc].distance_offset, labels[v_anc].distance_offset)
    THEN lca_offset(labels, labels[v_anc].parent, w_anc)
    ELSE lca_offset(labels, labels[v_anc].parent, labels[w_anc].parent)

\* get_distance with the offset of the lowest common ancestor subtracted once
get_distance_single_lca(labels, v, w) ==
    LET cv == labels[v]
        cw == labels[w]
    IN IF cv.cut_index = cw.cut_index
       THEN IF v = w THEN 0
            ELSE IF cv.distance_offset = 0 THEN cw.distance_offset
            ELSE IF cw.distance_offset = 0 THEN cv.distance_offset
            ELSE IF cv.parent = w THEN DAdd(cv.distance_offset, -cw.distance_offset)
            ELSE IF cw.parent = v THEN DAdd(cw.distance_offset, -cv.distance_offset)
            ELSE DAdd(DAdd(cv.distance_offset, cw.distance_offset), -lca_offset(labels, v, w))
       ELSE DAdd(DAdd(cv.distance_offset, cw.distance_offset),
                 flat_get_distance(cut_index_of(labels, v), cut_index_of(labels, w)))

\* ContractionIndex::get_distance(NodeID, NodeID)
get_distance(labels, v, w) ==
    LET cv == labels[v]
        cw == labels[w]
    IN IF cv.cut_index = cw.cut_index
       THEN IF v = w THEN 0
            ELSE IF cv.distance_offset = 0 THEN cw.distance_offset
            ELSE IF cw.distance_offset = 0 THEN cv.distance_offset
            ELSE IF cv.parent = w THEN DAdd(cv.distance_offset, -cw.distance_offset)
            ELSE IF cw.parent = v THEN DAdd(cw.distance_offset, -cv.distance_offset)
            ELSE DAdd(DAdd(cv.distance_offset, cw.distance_offset), -2 * lca_offset(labels, v, w))
       ELSE DAdd(DAdd(cv.distance_offset, cw.distance_offset),
                 flat_get_distance(cut_index_of(labels, v), cut_index_of(labels, w)))

\* ContractionIndex::get_spc
get_spc(labels, v, w) ==
    IF labels[v].cut_index = labels[w].cut_index THEN 1
    ELSE get_paths(cut_index_of(labels, v), cut_index_of(labels, w))

\* ---------------------------------------------------------------- index files
\* a file is the sequence of its 16 bit units: size_t takes four, distance_t and
\* NodeID two, uint16_t one
put_size(x) == <<x % 65536, (x \div 65536) % 65536, 0, 0>>
put_u32(d) == <<lo16(d), hi16(d)>>
get_size(f, pos) == f[pos + 1] + 65536 * f[pos + 2]
get_u32(f, pos) == dist_of(f[pos + 1], f[pos + 2])

\* ContractionIndex::write
RECURSIVE write_labels(_, _, _)
write_labels(labels, node, os) ==
    IF node > Len(labels) THEN os
    ELSE LET cl == labels[node]
         IN With(IF cl.distance_offset = 0
                 THEN LET data_size == flat_size(cut_index_of(labels, node))
                      IN os \o put_u32(cl.distance_offset) \o put_size(data_size)
                            \o SubSeq(cut_index_of(labels, node), 1, data_size \div 2)
                 ELSE os \o put_u32(cl.distance_offset) \o put_u32(cl.parent),
                 LAMBDA os1 : write_labels(labels, node + 1, os1))
ContractionIndex_write(labels) == write_labels(labels, 1, put_size(Len(labels)))

\* ContractionIndex::ContractionIndex(istream&), first loop
RECURSIVE read_labels(_, _, _, _)
read_labels(is, pos, node_count, labels) ==
    IF Len(labels) >= node_count THEN labels
    ELSE LET distance_offset == get_u32(is, pos)
         IN IF distance_offset = 0
            THEN LET data_size == get_size(is, pos + 2)
                 IN With(Append(labels, [ContractionLabel EXCEPT
                                !.cut_index = Len(labels) + 1,
                                !.data = SubSeq(is, pos + 7, pos + 6 + data_size \div 2)]),
                         LAMBDA l1 : read_labels(is, pos + 6 + data_size \div 2, node_count, l1))
            ELSE With(Append(labels, [ContractionLabel EXCEPT
                                !.distance_offset = distance_offset,
                                !.parent = get_u32(is, pos + 2)]),
                      LAMBDA l1 : read_labels(is, pos + 4, node_count, l1))
\* second loop: the owner of the buffer of a contracted vertex
RECURSIVE read_root(_, _)
read_root(labels, root) ==
    IF labels[root].distance_offset # 0 THEN read_root(labels, labels[root].parent) ELSE root
\* the stream constructor linking a contracted vertex to the block of its parent
ContractionIndex_read_parent(is) ==
    LET labels == read_labels(is, 4, get_size(is, 0), <<>>)
    IN AsSeq([node \in DOMAIN labels |->
            IF labels[node].distance_offset # 0
            THEN [labels[node] EXCEPT !.cut_index = labels[labels[node].parent].cut_index]
            ELSE labels[node]])
ContractionIndex_read(is) ==
    LET labels == read_labels(is, 4, get_size(is, 0), <<>>)
    IN AsSeq([node \in DOMAIN labels |->
            IF labels[node].distance_offset # 0
            THEN [labels[node] EXCEPT !.cut_index = labels[read_root(labels, labels[node].parent)].cut_index]
            ELSE labels[node]])

\* ContractionHierarchy::write
RECURSIVE write_up(_, _, _)
write_up(up, k, os) ==
    IF k > Len(up) THEN os
    ELSE write_up(up, k + 1, os \o put_u32(up[k].node) \o put_u32(up[k].distance) \o <<up[k].path_count>>)
RECURSIVE write_down(_, _, _)
write_down(down, k, os) ==
    IF k > Len(down) THEN os ELSE write_down(down, k + 1, os \o put_u32(down[k]))
RECURSIVE write_nodes(_, _, _)
write_nodes(chx, i, os) ==
    IF i > Len(chx) THEN os
    ELSE With(IF chx[i].dist_index = CONTRACTED THEN os \o <<chx[i].dist_index>>
              ELSE write_down(chx[i].down_neighbors, 1,
                      write_up(chx[i].up_neighbors, 1,
                          os \o <<chx[i].dist_index>> \o put_size(Len(chx[i].up_neighbors)))
                      \o put_size(Len(chx[i].down_neighbors))),
              LAMBDA os1 : write_nodes(chx, i + 1, os1))
ContractionHierarchy_write(chx) == write_nodes(chx, 1, put_size(Len(chx) + 1))

\* ContractionHierarchy::ContractionHierarchy(istream&)
RECURSIVE read_up(_, _, _, _)
read_up(is, pos, count, up) ==
    IF Len(up) >= count THEN up
    ELSE read_up(is, pos + 5, count,
            Append(up, UpN(get_u32(is, pos), get_u32(is, pos + 2), is[pos + 5])))
RECURSIVE read_down(_, _, _, _)
read_down(is, pos, count, down) ==
    IF Len(down) >= count THEN down
    ELSE read_down(is, pos + 2, count, Append(down, get_u32(is, pos)))
RECURSIVE read_nodes(_, _, _, _)
read_nodes(is, pos, node_count, chx) ==
    IF Len(chx) + 1 >= node_count THEN chx
    ELSE LET dist_index == is[pos + 1]
         IN IF dist_index = CONTRACTED
            THEN With(Append(chx, [CHNode EXCEPT !.dist_index = dist_index]),
                      LAMBDA c1 : read_nodes(is, pos + 1, node_count, c1))
            ELSE LET ucount == get_size(is, pos + 1)
                     dpos == pos + 5 + 5 * ucount
                     dcount == get_size(is, dpos)
                 IN With(Append(chx, [dist_index |-> dist_index,
                                      up_neighbors |-> read_up(is, pos + 5, ucount, <<>>),
                                      down_neighbors |-> read_down(is, dpos + 4, dcount, <<>>)]),
                         LAMBDA c1 : read_nodes(is, dpos + 4 + 2 * dcount, node_count, c1))
ContractionHierarchy_read(is) == read_nodes(is, 4, get_size(is, 0), <<>>)

\* -------------------------------------------------- shortcut graph maintenance
\* Graph::update_edge
update_edge(nd, v, w, d) ==
    LET hit == {k \in 1..Len(nd[v]) : nd[v][k].node = w}
    IN IF hit = {} THEN nd
       ELSE [nd EXCEPT ![v][CHOOSE k \in hit : \A j \in hit : k <= j].distance = d]

\* Graph::UpNeighbor: the position of w among the up neighbours of v; 0 when the
\* loop ends without a return
UpNeighbor(chx, v, w) ==
    LET hit == {k \in 1..Len(chx[v].up_neighbors) : chx[v].up_neighbors[k].node = w}
    IN IF hit = {} THEN 0 ELSE CHOOSE k \in hit : \A j \in hit : k <= j

DCHSearchNode(dist_index, v, w, distance, path_count) ==
    [dist_index |-> dist_index, v |-> v, w |-> w, distance |-> distance, path_count |-> path_count]

\* std::priority_queue<DCHSearchNode>: a binary max-heap on dist_index kept in
\* a vector by std::push_heap and std::pop_heap; positions count from 0
RECURSIVE push_heap_up(_, _, _)
push_heap_up(c, holeIndex, value) ==
    IF holeIndex > 0 /\ c[((holeIndex - 1) \div 2) + 1].dist_index < value.dist_index
    THEN push_heap_up([c EXCEPT ![holeIndex + 1] = c[((holeIndex - 1) \div 2) + 1]],
                      (holeIndex - 1) \div 2, value)
    ELSE [c EXCEPT ![holeIndex + 1] = value]
\* a push that leaves the new value at the end of the vector
pq_push_back(c, value) == Append(c, value)
pq_push(c, value) == push_heap_up(Append(c, value), Len(c), value)
RECURSIVE adjust_heap_down(_, _, _)
adjust_heap_down(c, len, secondChild) ==
    IF secondChild < (len - 1) \div 2
    THEN LET right == 2 * (secondChild + 1)
             child == IF c[right + 1].dist_index < c[right].dist_index THEN right - 1 ELSE right
         IN adjust_heap_down([c EXCEPT ![secondChild + 1] = c[child + 1]], len, child)
    ELSE IF len % 2 = 0 /\ secondChild = (len - 2) \div 2
    THEN [c |-> [c EXCEPT ![secondChild + 1] = c[2 * (secondChild + 1)]],
          holeIndex |-> 2 * (secondChild + 1) - 1]
    ELSE [c |-> c, holeIndex |-> secondChild]
pq_top(c) == c[1]
pq_pop(c) ==
    IF Len(c) = 1 THEN <<>>
    ELSE LET len == Len(c) - 1
             value == c[Len(c)]
             r == adjust_heap_down(SubSeq(c, 1, len), len, 0)
         IN push_heap_up(r.c, r.holeIndex, value)

\* the order of pair<edge_t, edata_t>
edge_less(x, y) ==
    \/ x.v < y.v
    \/ x.v = y.v /\ x.w < y.w
    \/ x.v = y.v /\ x.w = y.w /\ DLess(x.distance, y.distance)
    \/ x.v = y.v /\ x.w = y.w /\ x.distance = y.distance /\ x.path_count < y.path_count
CEdge(v, w, distance, path_count) == [v |-> v, w |-> w, distance |-> distance, path_count |-> path_count]

\* Graph::merge_edges
RECURSIVE merge_scan(_, _, _)
merge_scan(v, next, acc) ==
    IF next > Len(v) THEN acc
    ELSE LET last == acc[Len(acc)]
         IN IF v[next].v = last.v /\ v[next].w = last.w
            THEN IF DLess(v[next].distance, last.distance)
                 THEN merge_scan(v, next + 1, [acc EXCEPT ![Len(acc)] = v[next]])
                 ELSE IF v[next].distance = last.distance
                 THEN merge_scan(v, next + 1,
                        [acc EXCEPT ![Len(acc)].path_count = U16(@ + v[next].path_count)])
                 ELSE merge_scan(v, next + 1, acc)
            ELSE merge_scan(v, next + 1, Append(acc, v[next]))
merge_edges(v) ==
    IF Len(v) < 2 THEN v
    ELSE LET sorted == SortWith(v, edge_less) IN merge_scan(sorted, 2, <<sorted[1]>>)

\* an update as the drivers hand it over: ((old weight, new weight), (a, b))
Update(a, b, old, new) == [a |-> a, b |-> b, old |-> old, new |-> new]
\* (a, b) with the vertex of larger dist_index first
larger_first(chx, a, b) ==
    IF chx[a].dist_index < chx[b].dist_index THEN <<b, a>> ELSE <<a, b>>

\* Graph::GS_Dec, first loop.  st holds ch, the queue q, the list C and ub, set
\* when UpNeighbor fell off its loop
RECURSIVE gs_dec_init(_, _, _)
gs_dec_init(updates, k, st) ==
    IF k > Len(updates) \/ st.ub THEN st
    ELSE LET e == larger_first(st.ch, updates[k].a, updates[k].b)
             x == UpNeighbor(st.ch, e[1], e[2])
         IN IF x = 0 THEN [st EXCEPT !.ub = TRUE]
            ELSE IF DLeq(updates[k].new, st.ch[e[1]].up_neighbors[x].distance)
            THEN With([st EXCEPT !.q = pq_push(@, DCHSearchNode(st.ch[e[1]].dist_index, e[1], e[2], updates[k].new, 1))],
                      LAMBDA st1 : gs_dec_init(updates, k + 1, st1))
            ELSE gs_dec_init(updates, k + 1, st)
\* the loop over the up neighbours of next.v
RECURSIVE gs_dec_scan(_, _, _)
gs_dec_scan(next, k, st) ==
    IF k > Len(st.ch[next.v].up_neighbors) \/ st.ub THEN st
    ELSE LET n == st.ch[next.v].up_neighbors[k]
             dist == DAdd(next.distance, n.distance)
             path_count == U16(next.path_count * n.path_count)
             e == larger_first(st.ch, next.w, n.node)
             x == UpNeighbor(st.ch, e[1], e[2])
         IN IF n.node = next.w THEN gs_dec_scan(next, k + 1, st)
            ELSE IF x = 0 THEN [st EXCEPT !.ub = TRUE]
            ELSE IF DLeq(dist, st.ch[e[1]].up_neighbors[x].distance)
            THEN With([st EXCEPT !.q = pq_push(@, DCHSearchNode(st.ch[e[1]].dist_index, e[1], e[2], dist, path_count))],
                      LAMBDA st1 : gs_dec_scan(next, k + 1, st1))
            ELSE gs_dec_scan(next, k + 1, st)
\* one pass of the second loop of GS_Dec, on a queue that is not empty
gs_dec_pass(st) ==
    LET next == pq_top(st.q)
        x == UpNeighbor(st.ch, next.v, next.w)
        old == st.ch[next.v].up_neighbors[x]
        popped == [st EXCEPT !.q = pq_pop(@)]
    IN IF x = 0 THEN [st EXCEPT !.ub = TRUE]
       ELSE IF DLess(next.distance, old.distance)
       THEN With(gs_dec_scan(next, 1,
                   [popped EXCEPT !.ch[next.v].up_neighbors[x].distance = next.distance,
                                  !.ch[next.v].up_neighbors[x].path_count = next.path_count]),
                 LAMBDA st1 : [st1 EXCEPT !.C = Append(@, CEdge(next.v, next.w, next.distance, next.path_count))])
       ELSE IF next.distance = old.distance
       THEN With(gs_dec_scan(next, 1,
                   [popped EXCEPT !.ch[next.v].up_neighbors[x].path_count = U16(@ + next.path_count)]),
                 LAMBDA st1 : [st1 EXCEPT !.C = Append(@, CEdge(next.v, next.w, next.distance, next.path_count))])
       ELSE popped
RECURSIVE gs_dec_loop(_)
gs_dec_loop(st) ==
    IF st.q = <<>> \/ st.ub THEN st
    ELSE With(gs_dec_pass(st), LAMBDA st1 : gs_dec_loop(st1))
GS_Dec(chx, updates) ==
    LET st == gs_dec_loop(gs_dec_init(updates, 1, [ch |-> chx, q |-> <<>>, C |-> <<>>, ub |-> FALSE]))
    IN [st EXCEPT !.C = merge_edges(@)]

\* Graph::GS_Inc, first loop
RECURSIVE gs_inc_init(_, _, _)
gs_inc_init(updates, k, st) ==
    IF k > Len(updates) \/ st.ub THEN st
    ELSE LET e == larger_first(st.ch, updates[k].a, updates[k].b)
             x == UpNeighbor(st.ch, e[1], e[2])
         IN IF x = 0 THEN [st EXCEPT !.ub = TRUE]
            ELSE IF st.ch[e[1]].up_neighbors[x].distance = updates[k].old
            THEN With([st EXCEPT !.q = pq_push(@, DCHSearchNode(st.ch[e[1]].dist_index, e[1], e[2], updates[k].old, 1))],
                      LAMBDA st1 : gs_inc_init(updates, k + 1, st1))
            ELSE gs_inc_init(updates, k + 1, st)
RECURSIVE gs_inc_scan(_, _, _)
gs_inc_scan(next, k, st) ==
    IF k > Len(st.ch[next.v].up_neighbors) \/ st.ub THEN st
    ELSE LET n == st.ch[next.v].up_neighbors[k]
             dist == DAdd(next.distance, n.distance)
             path_count == U16(next.path_count * n.path_count)
             e == larger_first(st.ch, next.w, n.node)
             x == UpNeighbor(st.ch, e[1], e[2])
         IN IF n.node = next.w THEN gs_inc_scan(next, k + 1, st)
            ELSE IF x = 0 THEN [st EXCEPT !.ub = TRUE]
            ELSE IF st.ch[e[1]].up_neighbors[x].distance = dist
            THEN With([st EXCEPT !.q = pq_push(@, DCHSearchNode(st.ch[e[1]].dist_index, e[1], e[2], dist, path_count))],
                      LAMBDA st1 : gs_inc_scan(next, k + 1, st1))
            ELSE gs_inc_scan(next, k + 1, st)
\* the weight of the graph edge (v, w), infinity without one
edge_weight(nd, v, w) ==
    LET hit == {k \in 1..Len(nd[v]) : nd[v][k].node = w}
    IN IF hit = {} THEN infinity ELSE nd[v][CHOOSE k \in hit : \A j \in hit : k <= j].distance
\* the merge of the two down neighbour lists: x is the (distance, path_count) of
\* the shortcut (v, w) recomputed from the common down neighbours
RECURSIVE gs_inc_support(_, _, _, _, _, _)
gs_inc_support(chx, v, w, i, j, x) ==
    IF i > Len(chx[v].down_neighbors) \/ j > Len(chx[w].down_neighbors) \/ x.ub THEN x
    ELSE LET a == chx[v].down_neighbors[i]
             b == chx[w].down_neighbors[j]
         IN IF a < b THEN gs_inc_support(chx, v, w, i + 1, j, x)
            ELSE IF b < a THEN gs_inc_support(chx, v, w, i, j + 1, x)
            ELSE LET av == UpNeighbor(chx, a, v)
                     aw == UpNeighbor(chx, a, w)
                     dist == DAdd(chx[a].up_neighbors[av].distance, chx[a].up_neighbors[aw].distance)
                     path_count == U16(chx[a].up_neighbors[av].path_count * chx[a].up_neighbors[aw].path_count)
                 IN IF av = 0 \/ aw = 0 THEN [x EXCEPT !.ub = TRUE]
                    ELSE gs_inc_support(chx, v, w, i + 1, j + 1,
                            IF DLess(dist, x.distance)
                            THEN [x EXCEPT !.distance = dist, !.path_count = path_count]
                            ELSE IF dist = x.distance
                            THEN [x EXCEPT !.path_count = U16(@ + path_count)]
                            ELSE x)
\* whether GS_Inc recomputes the edge of next instead of lowering its count
gs_inc_recomputes(chx, next) ==
    ~(chx[next.v].up_neighbors[UpNeighbor(chx, next.v, next.w)].path_count > next.path_count)
\* one pass of the second loop of GS_Inc, on a queue that is not empty
gs_inc_pass(nd, st) ==
    LET next == pq_top(st.q)
        st1 == gs_inc_scan(next, 1, [st EXCEPT !.q = pq_pop(@)])
        x == UpNeighbor(st1.ch, next.v, next.w)
        new == gs_inc_support(st1.ch, next.v, next.w, 1, 1,
                   [distance |-> edge_weight(nd, next.v, next.w), path_count |-> 1, ub |-> FALSE])
    IN IF st1.ub THEN st1
       ELSE IF x = 0 THEN [st1 EXCEPT !.ub = TRUE]
       ELSE With(IF ~gs_inc_recomputes(st1.ch, next)
                 THEN [st1 EXCEPT !.ch[next.v].up_neighbors[x].path_count = @ - next.path_count]
                 ELSE [st1 EXCEPT !.ch[next.v].up_neighbors[x].distance = new.distance,
                                  !.ch[next.v].up_neighbors[x].path_count = new.path_count,
                                  !.ub = new.ub],
                 LAMBDA st2 : [st2 EXCEPT !.C = Append(@, CEdge(next.v, next.w, next.distance, next.path_count))])
RECURSIVE gs_inc_loop(_, _)
gs_inc_loop(nd, st) ==
    IF st.q = <<>> \/ st.ub THEN st
    ELSE With(gs_inc_pass(nd, st), LAMBDA st1 : gs_inc_loop(nd, st1))
GS_Inc(nd, chx, updates) ==
    LET st == gs_inc_loop(nd, gs_inc_init(updates, 1, [ch |-> chx, q |-> <<>>, C |-> <<>>, ub |-> FALSE]))
    IN [st EXCEPT !.C = merge_edges(@)]

\* ------------------------------------------------------- label maintenance
\* util::min_bucket_queue; buckets and min_bucket count from 0
min_bucket_queue == [buckets |-> <<>>, min_bucket |-> 0]
mbq_empty(q) == q.min_bucket >= Len(q.buckets)
\* a push that moves min_bucket only when the queue is empty
mbq_push_keep_min(q, value, bucket) ==
    LET buckets == IF Len(q.buckets) <= bucket
                   THEN q.buckets \o AsSeq([k \in 1..(bucket + 1 - Len(q.buckets)) |-> <<>>])
                   ELSE q.buckets
    IN [buckets |-> [buckets EXCEPT ![bucket + 1] = Append(@, value)],
        min_bucket |-> IF q.min_bucket >= Len(q.buckets) THEN bucket ELSE q.min_bucket]
mbq_push(q, value, bucket) ==
    LET min_bucket == IF mbq_empty(q) \/ q.min_bucket > bucket THEN bucket ELSE q.min_bucket
        buckets == IF Len(q.buckets) <= bucket
                   THEN q.buckets \o AsSeq([k \in 1..(bucket + 1 - Len(q.buckets)) |-> <<>>])
                   ELSE q.buckets
    IN [buckets |-> [buckets EXCEPT ![bucket + 1] = Append(@, value)], min_bucket |-> min_bucket]
mbq_top(q) == q.buckets[q.min_bucket + 1][Len(q.buckets[q.min_bucket + 1])]
RECURSIVE mbq_skip(_, _)
mbq_skip(buckets, min_bucket) ==
    IF min_bucket < Len(buckets) /\ buckets[min_bucket + 1] = <<>>
    THEN mbq_skip(buckets, min_bucket + 1)
    ELSE min_bucket
mbq_pop(q) ==
    LET buckets == [q.buckets EXCEPT ![q.min_bucket + 1] = SubSeq(@, 1, Len(@) - 1)]
    IN [buckets |-> buckets, min_bucket |-> mbq_skip(buckets, q.min_bucket)]

ICHSearchNode(v, i, distance, path_count) == [v |-> v, i |-> i, distance |-> distance, path_count |-> path_count]

\* stores through FlatCutIndex::distances() and paths() of the label of v
set_distance(labels, v, i, d) ==
    LET o == labels[v].cut_index
        at == distances_at(labels[o].data)
    IN [labels EXCEPT ![o].data[at + 2 * i + 1] = lo16(d), ![o].data[at + 2 * i + 2] = hi16(d)]
\* set_paths that adds the count at the end of the buffer
set_paths_grow(labels, v, i, c) == [labels EXCEPT ![labels[v].cut_index].data = Append(@, c)]
set_paths(labels, v, i, c) ==
    LET o == labels[v].cut_index
    IN [labels EXCEPT ![o].data[paths_at(labels[o].data) + i + 1] = c]
distances(labels, v, i) == flat_distances(cut_index_of(labels, v), i)
paths(labels, v, i) == flat_paths(cut_index_of(labels, v), i)

\* Graph::DCL_Dec, the loop over C: the slots of the ancestors
RECURSIVE dcl_dec_slots(_, _, _, _, _)
dcl_dec_slots(chx, labels, e, i, q) ==
    IF i > chx[e.w].dist_index THEN q
    ELSE LET dist == DAdd(e.distance, distances(labels, e.w, i))
         IN IF DLeq(dist, distances(labels, e.v, i))
            THEN dcl_dec_slots(chx, labels, e, i + 1,
                    mbq_push(q, ICHSearchNode(e.v, i, dist, U16(e.path_count * paths(labels, e.w, i))),
                             chx[e.v].dist_index))
            ELSE dcl_dec_slots(chx, labels, e, i + 1, q)
RECURSIVE dcl_dec_init(_, _, _, _, _)
dcl_dec_init(chx, labels, C, k, q) ==
    IF k > Len(C) THEN q
    ELSE With(IF DLeq(C[k].distance, distances(labels, C[k].v, chx[C[k].w].dist_index))
              THEN dcl_dec_slots(chx, labels, C[k], 0, q)
              ELSE q,
              LAMBDA q1 : dcl_dec_init(chx, labels, C, k + 1, q1))
\* the loop over the down neighbours of next.v
RECURSIVE dcl_dec_down(_, _, _, _)
dcl_dec_down(chx, next, k, st) ==
    IF k > Len(chx[next.v].down_neighbors) \/ st.ub THEN st
    ELSE LET u == chx[next.v].down_neighbors[k]
             x == UpNeighbor(chx, u, next.v)
             dist == DAdd(chx[u].up_neighbors[x].distance, next.distance)
         IN IF x = 0 THEN [st EXCEPT !.ub = TRUE]
            ELSE IF DLeq(dist, distances(st.labels, u, next.i))
            THEN With([st EXCEPT !.q = mbq_push(@, ICHSearchNode(u, next.i, dist,
                                            U16(chx[u].up_neighbors[x].path_count * next.path_count)),
                                            chx[u].dist_index)],
                      LAMBDA st1 : dcl_dec_down(chx, next, k + 1, st1))
            ELSE dcl_dec_down(chx, next, k + 1, st)
\* one pass of the second loop of DCL_Dec, on a queue that is not empty
dcl_dec_pass(chx, st) ==
    LET next == mbq_top(st.q)
        popped == [st EXCEPT !.q = mbq_pop(@)]
        cur == distances(st.labels, next.v, next.i)
    IN IF DLess(next.distance, cur)
       THEN dcl_dec_down(chx, next, 1,
                [popped EXCEPT !.labels = set_paths(set_distance(@, next.v, next.i, next.distance),
                                                    next.v, next.i, next.path_count)])
       ELSE IF cur = next.distance
       THEN dcl_dec_down(chx, next, 1,
                [popped EXCEPT !.labels = set_paths(@, next.v, next.i,
                                            U16(paths(@, next.v, next.i) + next.path_count))])
       ELSE popped
RECURSIVE dcl_dec_loop(_, _)
dcl_dec_loop(chx, st) ==
    IF mbq_empty(st.q) \/ st.ub THEN st
    ELSE With(dcl_dec_pass(chx, st), LAMBDA st1 : dcl_dec_loop(chx, st1))
\* Graph::DCL_Dec: the hierarchy and the labels it leaves behind
DCL_Dec(chx, labels, updates) ==
    With(GS_Dec(chx, updates), LAMBDA gs :
    With(dcl_dec_loop(gs.ch, [labels |-> labels, ub |-> gs.ub,
                    q |-> IF gs.ub THEN min_bucket_queue
                          ELSE dcl_dec_init(gs.ch, labels, gs.C, 1, min_bucket_queue)]),
         LAMBDA st :
    [ch |-> gs.ch, labels |-> st.labels, ub |-> st.ub]))

\* Graph::DCL_Inc, the loop over C
RECURSIVE dcl_inc_slots(_, _, _, _, _)
dcl_inc_slots(chx, labels, e, i, q) ==
    IF i > chx[e.w].dist_index THEN q
    ELSE LET dist == DAdd(e.distance, distances(labels, e.w, i))
         IN IF dist = distances(labels, e.v, i)
            THEN dcl_inc_slots(chx, labels, e, i + 1,
                    mbq_push(q, ICHSearchNode(e.v, i, dist, U16(e.path_count * paths(labels, e.w, i))),
                             chx[e.v].dist_index))
            ELSE dcl_inc_slots(chx, labels, e, i + 1, q)
RECURSIVE dcl_inc_init(_, _, _, _, _)
dcl_inc_init(chx, labels, C, k, q) ==
    IF k > Len(C) THEN q
    ELSE With(IF C[k].distance = distances(labels, C[k].v, chx[C[k].w].dist_index)
              THEN dcl_inc_slots(chx, labels, C[k], 0, q)
              ELSE q,
              LAMBDA q1 : dcl_inc_init(chx, labels, C, k + 1, q1))
\* the loop over the down neighbours of next.v
RECURSIVE dcl_inc_down(_, _, _, _)
dcl_inc_down(chx, next, k, st) ==
    IF k > Len(chx[next.v].down_neighbors) \/ st.ub THEN st
    ELSE LET u == chx[next.v].down_neighbors[k]
             x == UpNeighbor(chx, u, next.v)
             dist == DAdd(chx[u].up_neighbors[x].distance, distances(st.labels, next.v, next.i))
         IN IF x = 0 THEN [st EXCEPT !.ub = TRUE]
            ELSE IF dist = distances(st.labels, u, next.i)
            THEN With([st EXCEPT !.q = mbq_push(@, ICHSearchNode(u, next.i, dist,
                                            U16(chx[u].up_neighbors[x].path_count * next.path_count)),
                                            chx[u].dist_index)],
                      LAMBDA st1 : dcl_inc_down(chx, next, k + 1, st1))
            ELSE dcl_inc_down(chx, next, k + 1, st)
\* the recomputation of slot i of v from the up neighbours of v
RECURSIVE dcl_inc_recompute(_, _, _, _, _)
dcl_inc_recompute(chx, labels, v, i, k) ==
    IF k > Len(chx[v].up_neighbors) THEN labels
    ELSE LET u == chx[v].up_neighbors[k]
             x == chx[v].up_neighbors[UpNeighbor(chx, v, u.node)]
             dist == DAdd(x.distance, distances(labels, u.node, i))
             path_count == U16(x.path_count * paths(labels, u.node, i))
         IN IF chx[u.node].dist_index >= i
            THEN With(IF DLess(dist, distances(labels, v, i))
                      THEN set_paths(set_distance(labels, v, i, dist), v, i, path_count)
                      ELSE IF dist = distances(labels, v, i)
                      THEN set_paths(labels, v, i, U16(paths(labels, v, i) + path_count))
                      ELSE labels,
                      LAMBDA l1 : dcl_inc_recompute(chx, l1, v, i, k + 1))
            ELSE dcl_inc_recompute(chx, labels, v, i, k + 1)
\* one pass of the second loop of DCL_Inc, on a queue that is not empty
dcl_inc_pass(chx, st) ==
    LET next == mbq_top(st.q)
        st1 == dcl_inc_down(chx, next, 1, [st EXCEPT !.q = mbq_pop(@)])
    IN IF st1.ub THEN st1
       ELSE IF paths(st1.labels, next.v, next.i) > next.path_count
       THEN [st1 EXCEPT !.labels = set_paths(@, next.v, next.i,
                                        paths(@, next.v, next.i) - next.path_count)]
       ELSE [st1 EXCEPT !.labels = dcl_inc_recompute(chx,
                                        set_distance(@, next.v, next.i, infinity),
                                        next.v, next.i, 1)]
RECURSIVE dcl_inc_loop(_, _)
dcl_inc_loop(chx, st) ==
    IF mbq_empty(st.q) \/ st.ub THEN st
    ELSE With(dcl_inc_pass(chx, st), LAMBDA st1 : dcl_inc_loop(chx, st1))
\* Graph::DCL_Inc
DCL_Inc(nd, chx, labels, updates) ==
    With(GS_Inc(nd, chx, updates), LAMBDA gs :
    With(dcl_inc_loop(gs.ch, [labels |-> labels, ub |-> gs.ub,
                    q |-> IF gs.ub THEN min_bucket_queue
                          ELSE dcl_inc_init(gs.ch, labels, gs.C, 1, min_bucket_queue)]),
         LAMBDA st :
    [ch |-> gs.ch, labels |-> st.labels, ub |-> st.ub]))

\* ------------------------------------------- label maintenance, optimized
\* bit 15 of a path count marks a slot whose original value is in the queue
HighBit == 32768
marked(c) == c >= HighBit
mark(c) == IF marked(c) THEN c ELSE c + HighBit
unmark(c) == c % HighBit

\* Graph::EnqueAndUpdate_d on the state st = [labels, q, ub]
EnqueAndUpdate_d(chx, st, v, i, dist, path_count) ==
    With(IF ~marked(paths(st.labels, v, i))
         THEN [st EXCEPT !.q = mbq_push(@, ICHSearchNode(v, i, distances(st.labels, v, i),
                                                        paths(st.labels, v, i)), chx[v].dist_index),
                         !.labels = set_paths(@, v, i, mark(paths(@, v, i)))]
         ELSE st,
         LAMBDA st1 :
            IF DLess(dist, distances(st1.labels, v, i))
            THEN [st1 EXCEPT !.labels = set_paths(set_distance(@, v, i, dist), v, i, mark(path_count))]
            ELSE [st1 EXCEPT !.labels = set_paths(@, v, i, U16(paths(@, v, i) + path_count))])

\* Graph::EnqueAndUpdate_i
EnqueAndUpdate_i(chx, st, v, i, path_count) ==
    With(IF ~marked(paths(st.labels, v, i))
         THEN [st EXCEPT !.q = mbq_push(@, ICHSearchNode(v, i, distances(st.labels, v, i),
                                                        paths(st.labels, v, i)), chx[v].dist_index),
                         !.labels = set_paths(@, v, i, mark(paths(@, v, i)))]
         ELSE st,
         LAMBDA st1 :
            [st1 EXCEPT !.labels = set_paths(@, v, i, U16(paths(@, v, i) - path_count))])

\* Graph::DCL_Dec_Opt, the loop over C
RECURSIVE dcl_dec_opt_slots(_, _, _, _)
dcl_dec_opt_slots(chx, e, i, st) ==
    IF i > chx[e.w].dist_index THEN st
    ELSE With(DAdd(e.distance, distances(st.labels, e.w, i)), LAMBDA dist :
         With(IF DLeq(dist, distances(st.labels, e.v, i))
              THEN EnqueAndUpdate_d(chx, st, e.v, i, dist, U16(e.path_count * paths(st.labels, e.w, i)))
              ELSE st,
              LAMBDA st1 : dcl_dec_opt_slots(chx, e, i + 1, st1)))
RECURSIVE dcl_dec_opt_init(_, _, _, _)
dcl_dec_opt_init(chx, C, k, st) ==
    IF k > Len(C) THEN st
    ELSE With(IF DLeq(C[k].distance, distances(st.labels, C[k].v, chx[C[k].w].dist_index))
              THEN dcl_dec_opt_slots(chx, C[k], 0, st)
              ELSE st,
              LAMBDA st1 : dcl_dec_opt_init(chx, C, k + 1, st1))
\* the loop over the down neighbours of next.v
RECURSIVE dcl_dec_opt_down(_, _, _, _, _)
dcl_dec_opt_down(chx, next, convex_path_count, k, st) ==
    IF k > Len(chx[next.v].down_neighbors) \/ st.ub THEN st
    ELSE LET u == chx[next.v].down_neighbors[k]
             x == UpNeighbor(chx, u, next.v)
             dist == DAdd(chx[u].up_neighbors[x].distance, distances(st.labels, next.v, next.i))
         IN IF x = 0 THEN [st EXCEPT !.ub = TRUE]
            ELSE With(IF DLeq(dist, distances(st.labels, u, next.i))
                      THEN EnqueAndUpdate_d(chx, st, u, next.i, dist,
                                U16(chx[u].up_neighbors[x].path_count * convex_path_count))
                      ELSE st,
                      LAMBDA st1 : dcl_dec_opt_down(chx, next, convex_path_count, k + 1, st1))
\* one pass of the queue loop
dcl_dec_opt_pass(chx, st) ==
    With(mbq_top(st.q), LAMBDA next :
    With([st EXCEPT !.q = mbq_pop(@),
                    !.labels = set_paths(@, next.v, next.i, unmark(paths(@, next.v, next.i)))],
         LAMBDA st1 :
            IF distances(st1.labels, next.v, next.i) = next.distance
            THEN dcl_dec_opt_down(chx, next,
                      U16(paths(st1.labels, next.v, next.i) - next.path_count), 1, st1)
            ELSE IF DLess(distances(st1.labels, next.v, next.i), next.distance)
            THEN dcl_dec_opt_down(chx, next, paths(st1.labels, next.v, next.i), 1, st1)
            ELSE st1))
RECURSIVE dcl_dec_opt_loop(_, _)
dcl_dec_opt_loop(chx, st) ==
    IF mbq_empty(st.q) \/ st.ub THEN st
    ELSE With(dcl_dec_opt_pass(chx, st), LAMBDA st1 : dcl_dec_opt_loop(chx, st1))
\* Graph::DCL_Dec_Opt
DCL_Dec_Opt(chx, labels, updates) ==
    With(GS_Dec(chx, updates), LAMBDA gs :
    With(IF gs.ub THEN [labels |-> labels, ub |-> TRUE, q |-> min_bucket_queue]
         ELSE dcl_dec_opt_loop(gs.ch,
                dcl_dec_opt_init(gs.ch, gs.C, 1, [labels |-> labels, ub |-> FALSE, q |-> min_bucket_queue])),
         LAMBDA st :
    [ch |-> gs.ch, labels |-> st.labels, ub |-> st.ub]))

\* Graph::DCL_Inc_Opt, the loop over C
RECURSIVE dcl_inc_opt_slots(_, _, _, _)
dcl_inc_opt_slots(chx, e, i, st) ==
    IF i > chx[e.w].dist_index THEN st
    ELSE With(IF DAdd(e.distance, distances(st.labels, e.w, i)) = distances(st.labels, e.v, i)
              THEN EnqueAndUpdate_i(chx, st, e.v, i, U16(e.path_count * paths(st.labels, e.w, i)))
              ELSE st,
              LAMBDA st1 : dcl_inc_opt_slots(chx, e, i + 1, st1))
RECURSIVE dcl_inc_opt_init(_, _, _, _)
dcl_inc_opt_init(chx, C, k, st) ==
    IF k > Len(C) THEN st
    ELSE With(IF C[k].distance = distances(st.labels, C[k].v, chx[C[k].w].dist_index)
              THEN dcl_inc_opt_slots(chx, C[k], 0, st)
              ELSE st,
              LAMBDA st1 : dcl_inc_opt_init(chx, C, k + 1, st1))
\* the loop over the down neighbours of next.v
RECURSIVE dcl_inc_opt_down(_, _, _, _, _)
dcl_inc_opt_down(chx, next, convex_path_count, k, st) ==
    IF k > Len(chx[next.v].down_neighbors) \/ st.ub THEN st
    ELSE LET u == chx[next.v].down_neighbors[k]
             x == UpNeighbor(chx, u, next.v)
             dist == DAdd(chx[u].up_neighbors[x].distance, distances(st.labels, next.v, next.i))
         IN IF x = 0 THEN [st EXCEPT !.ub = TRUE]
            ELSE With(IF dist = distances(st.labels, u, next.i)
                      THEN EnqueAndUpdate_i(chx, st, u, next.i,
                                U16(chx[u].up_neighbors[x].path_count * convex_path_count))
                      ELSE st,
                      LAMBDA st1 : dcl_inc_opt_down(chx, next, convex_path_count, k + 1, st1))
\* one pass of the queue loop
dcl_inc_opt_pass(chx, st) ==
    With(mbq_top(st.q), LAMBDA next :
    With([st EXCEPT !.q = mbq_pop(@),
                    !.labels = set_paths(@, next.v, next.i, unmark(paths(@, next.v, next.i)))],
         LAMBDA st1 :
    With(dcl_inc_opt_down(chx, next,
               U16(next.path_count - paths(st1.labels, next.v, next.i)), 1, st1),
         LAMBDA st2 :
            IF st2.ub THEN st2
            ELSE IF paths(st2.labels, next.v, next.i) = 0
            THEN [st2 EXCEPT !.labels = dcl_inc_recompute(chx,
                                 set_distance(@, next.v, next.i, infinity), next.v, next.i, 1)]
            ELSE st2)))
RECURSIVE dcl_inc_opt_loop(_, _)
dcl_inc_opt_loop(chx, st) ==
    IF mbq_empty(st.q) \/ st.ub THEN st
    ELSE With(dcl_inc_opt_pass(chx, st), LAMBDA st1 : dcl_inc_opt_loop(chx, st1))
\* Graph::DCL_Inc_Opt
DCL_Inc_Opt(nd, chx, labels, updates) ==
    With(GS_Inc(nd, chx, updates), LAMBDA gs :
    With(IF gs.ub THEN [labels |-> labels, ub |-> TRUE, q |-> min_bucket_queue]
         ELSE dcl_inc_opt_loop(gs.ch,
                dcl_inc_opt_init(gs.ch, gs.C, 1, [labels |-> labels, ub |-> FALSE, q |-> min_bucket_queue])),
         LAMBDA st :
    [ch |-> gs.ch, labels |-> st.labels, ub |-> st.ub]))

\* -------------------------------------------- label maintenance, parallel
\* the number of threads DCL_Dec_Par and DCL_Inc_Par start
MULTI_THREAD_DISTANCES == 2
ICHSearchNode_P(v, distance, path_count) == [v |-> v, distance |-> distance, path_count |-> path_count]
\* util::TSBucketQueue; its min_bucket has no initial value, and is only
\* compared with the size 0 of the empty bucket list before push assigns it
TSBucketQueue == [buckets |-> <<>>, min_bucket |-> 0]
\* TSBucketQueue::push
tsq_push(q, item, bucket) ==
    LET min_bucket == IF q.min_bucket >= Len(q.buckets) \/ q.min_bucket > bucket THEN bucket ELSE q.min_bucket
        buckets == IF Len(q.buckets) <= bucket
                   THEN q.buckets \o AsSeq([k \in 1..(bucket + 1 - Len(q.buckets)) |-> <<>>])
                   ELSE q.buckets
    IN [buckets |-> [buckets EXCEPT ![bucket + 1] = Append(@, item)], min_bucket |-> min_bucket]
\* a next_bucket that leaves the bucket and min_bucket as they are
next_bucket_again(q) == [bucket |-> q.min_bucket, items |-> q.buckets[q.min_bucket + 1], q |-> q]
\* TSBucketQueue::next_bucket on a queue that is not empty
next_bucket(q) ==
    [bucket |-> q.min_bucket,
     items |-> q.buckets[q.min_bucket + 1],
     q |-> [buckets |-> [q.buckets EXCEPT ![q.min_bucket + 1] = <<>>],
            min_bucket |-> mbq_skip(q.buckets, q.min_bucket + 1)]]
\* for (obj : bucket) bq.push(obj, label_index)
RECURSIVE push_bucket(_, _, _, _)
push_bucket(bq, bucket, label_index, k) ==
    IF k > Len(bucket) THEN bq
    ELSE push_bucket(mbq_push(bq, bucket[k], label_index), bucket, label_index, k + 1)

\* Graph::DCL_Dec_Par, the loop over C that fills the queue of buckets
RECURSIVE dcl_dec_par_slots(_, _, _, _, _)
dcl_dec_par_slots(chx, labels, e, i, grouping) ==
    IF i > chx[e.w].dist_index THEN grouping
    ELSE LET dist == DAdd(e.distance, distances(labels, e.w, i))
         IN IF DLeq(dist, distances(labels, e.v, i))
            THEN dcl_dec_par_slots(chx, labels, e, i + 1,
                    tsq_push(grouping, ICHSearchNode_P(e.v, dist, U16(e.path_count * paths(labels, e.w, i))), i))
            ELSE dcl_dec_par_slots(chx, labels, e, i + 1, grouping)
RECURSIVE dcl_dec_par_init(_, _, _, _, _)
dcl_dec_par_init(chx, labels, C, k, grouping) ==
    IF k > Len(C) THEN grouping
    ELSE With(IF DLeq(C[k].distance, distances(labels, C[k].v, chx[C[k].w].dist_index))
              THEN dcl_dec_par_slots(chx, labels, C[k], 0, grouping)
              ELSE grouping,
              LAMBDA g1 : dcl_dec_par_init(chx, labels, C, k + 1, g1))
\* dhcldec, the loop over the down neighbours of next.v; st = [labels, q, ub]
RECURSIVE dhcldec_down(_, _, _, _, _)
dhcldec_down(chx, next, label_index, k, st) ==
    IF k > Len(chx[next.v].down_neighbors) \/ st.ub THEN st
    ELSE LET u == chx[next.v].down_neighbors[k]
             x == UpNeighbor(chx, u, next.v)
             dist == DAdd(chx[u].up_neighbors[x].distance, next.distance)
         IN IF x = 0 THEN [st EXCEPT !.ub = TRUE]
            ELSE IF DLeq(dist, distances(st.labels, u, label_index))
            THEN With([st EXCEPT !.q = mbq_push(@, ICHSearchNode_P(u, dist,
                                            U16(chx[u].up_neighbors[x].path_count * next.path_count)),
                                            label_index)],
                      LAMBDA st1 : dhcldec_down(chx, next, label_index, k + 1, st1))
            ELSE dhcldec_down(chx, next, label_index, k + 1, st)
\* dhcldec without the comparison with the slot: the popped item always wins
dhcldec_last_wins(chx, labels, bq, label_index) ==
    LET next == mbq_top(bq)
        popped == [labels |-> labels, q |-> mbq_pop(bq), ub |-> FALSE]
    IN dhcldec_down(chx, next, label_index, 1,
            [popped EXCEPT !.labels = set_paths(set_distance(@, next.v, label_index, next.distance),
                                                next.v, label_index, next.path_count)])
\* dhcldec, one pass of the loop over the thread's bucket queue bq
dhcldec(chx, labels, bq, label_index) ==
    LET next == mbq_top(bq)
        popped == [labels |-> labels, q |-> mbq_pop(bq), ub |-> FALSE]
        cur == distances(labels, next.v, label_index)
    IN IF DLess(next.distance, cur)
       THEN dhcldec_down(chx, next, label_index, 1,
                [popped EXCEPT !.labels = set_paths(set_distance(@, next.v, label_index, next.distance),
                                                    next.v, label_index, next.path_count)])
       ELSE IF cur = next.distance
       THEN dhcldec_down(chx, next, label_index, 1,
                [popped EXCEPT !.labels = set_paths(@, next.v, label_index,
                                                    U16(paths(@, next.v, label_index) + next.path_count))])
       ELSE popped

\* Graph::DCL_Inc_Par, the loop over C that fills the queue of buckets
RECURSIVE dcl_inc_par_slots(_, _, _, _, _)
dcl_inc_par_slots(chx, labels, e, i, grouping) ==
    IF i > chx[e.w].dist_index THEN grouping
    ELSE LET dist == DAdd(e.distance, distances(labels, e.w, i))
         IN IF dist = distances(labels, e.v, i)
            THEN dcl_inc_par_slots(chx, labels, e, i + 1,
                    tsq_push(grouping, ICHSearchNode_P(e.v, dist, U16(e.path_count * paths(labels, e.w, i))), i))
            ELSE dcl_inc_par_slots(chx, labels, e, i + 1, grouping)
RECURSIVE dcl_inc_par_init(_, _, _, _, _)
dcl_inc_par_init(chx, labels, C, k, grouping) ==
    IF k > Len(C) THEN grouping
    ELSE With(IF C[k].distance = distances(labels, C[k].v, chx[C[k].w].dist_index)
              THEN dcl_inc_par_slots(chx, labels, C[k], 0, grouping)
              ELSE grouping,
              LAMBDA g1 : dcl_inc_par_init(chx, labels, C, k + 1, g1))
\* dhclinc, the loop over the down neighbours of next.v; st = [labels, q, ub]
RECURSIVE dhclinc_down(_, _, _, _, _)
dhclinc_down(chx, next, label_index, k, st) ==
    IF k > Len(chx[next.v].down_neighbors) \/ st.ub THEN st
    ELSE LET u == chx[next.v].down_neighbors[k]
             x == UpNeighbor(chx, u, next.v)
             dist == DAdd(chx[u].up_neighbors[x].distance, distances(st.labels, next.v, label_index))
         IN IF x = 0 THEN [st EXCEPT !.ub = TRUE]
            ELSE IF dist = distances(st.labels, u, label_index)
            THEN With([st EXCEPT !.q = mbq_push(@, ICHSearchNode_P(u, dist,
                                            U16(chx[u].up_neighbors[x].path_count * next.path_count)),
                                            label_index)],
                      LAMBDA st1 : dhclinc_down(chx, next, label_index, k + 1, st1))
            ELSE dhclinc_down(chx, next, label_index, k + 1, st)
\* whether dhclinc recomputes the slot of next.v instead of lowering its count
dhclinc_recomputes(labels, next, label_index) ==
    ~(paths(labels, next.v, label_index) > next.path_count)
\* dhclinc, one pass of the loop over the thread's bucket queue bq
dhclinc(chx, labels, bq, label_index) ==
    LET next == mbq_top(bq)
    IN With(dhclinc_down(chx, next, label_index, 1, [labels |-> labels, q |-> mbq_pop(bq), ub |-> FALSE]),
            LAMBDA st1 :
               IF st1.ub THEN st1
               ELSE IF ~dhclinc_recomputes(st1.labels, next, label_index)
               THEN [st1 EXCEPT !.labels = set_paths(@, next.v, label_index,
                                                paths(@, next.v, label_index) - next.path_count)]
               ELSE [st1 EXCEPT !.labels = dcl_inc_recompute(chx,
                                                set_distance(@, next.v, label_index, infinity),
                                                next.v, label_index, 1)])

\* ------------------------------------------------------- contracted vertices
SearchNode(distance, node) == [distance |-> distance, node |-> node]
\* the order of pair<pair<distance_t, distance_t>, NodeID>
contracted_less(x, y) ==
    \/ DLess(x.old, y.old)
    \/ x.old = y.old /\ DLess(x.new, y.new)
    \/ x.old = y.old /\ x.new = y.new /\ x.node < y.node
\* a search that stops at the vertex of the update
seq_push_none(nd, labels, next, k, stack) == stack
\* the neighbours of next.node that hang below it
RECURSIVE seq_push(_, _, _, _, _)
seq_push(nd, labels, next, k, stack) ==
    IF k > Len(nd[next.node]) THEN stack
    ELSE seq_push(nd, labels, next, k + 1,
            IF labels[nd[next.node][k].node].parent = next.node
            THEN Append(stack, SearchNode(DAdd(next.distance, nd[next.node][k].distance), nd[next.node][k].node))
            ELSE stack)
RECURSIVE seq_dfs(_, _, _)
seq_dfs(nd, labels, stack) ==
    IF stack = <<>> THEN labels
    ELSE LET next == stack[Len(stack)]
         IN With([labels EXCEPT ![next.node].distance_offset = next.distance],
                 LAMBDA l1 : seq_dfs(nd, l1, seq_push(nd, l1, next, 1, SubSeq(stack, 1, Len(stack) - 1))))
RECURSIVE seq_updates(_, _, _, _)
seq_updates(nd, labels, cu, k) ==
    IF k > Len(cu) THEN labels
    ELSE IF cu[k].old # labels[cu[k].node].distance_offset
    THEN seq_updates(nd, labels, cu, k + 1)
    ELSE With(seq_dfs(nd, labels, <<SearchNode(cu[k].new, cu[k].node)>>),
              LAMBDA l1 : seq_updates(nd, l1, cu, k + 1))
\* Graph::contract_seq
contract_seq(nd, labels, contracted_updates) ==
    seq_updates(nd, labels, SortWith(contracted_updates, contracted_less), 1)

\* ------------------------------------------------------------- update driver
ContractedUpdate(old, new, node) == [old |-> old, new |-> new, node |-> node]
\* update.cpp, the loop over the update file: the edge weights are set and the
\* updates are split into those on contracted vertices and the others
RECURSIVE read_updates(_, _, _, _)
read_updates(labels, batch, k, st) ==
    IF k > Len(batch) THEN st
    ELSE LET a == batch[k].a
             b == batch[k].b
             new_weight == batch[k].new
             x == labels[a]
             y == labels[b]
             nd1 == update_edge(update_edge(st.node_data, a, b, new_weight), b, a, new_weight)
         IN With(IF x.parent # NO_NODE \/ y.parent # NO_NODE
                 THEN IF DLess(y.distance_offset, x.distance_offset)
                      THEN [st EXCEPT !.node_data = nd1,
                                      !.contracted_updates = Append(@, ContractedUpdate(x.distance_offset, DAdd(y.distance_offset, new_weight), a))]
                      ELSE IF DLess(x.distance_offset, y.distance_offset)
                      THEN [st EXCEPT !.node_data = nd1,
                                      !.contracted_updates = Append(@, ContractedUpdate(y.distance_offset, DAdd(x.distance_offset, new_weight), b))]
                      ELSE [st EXCEPT !.node_data = nd1]
                 ELSE [st EXCEPT !.node_data = nd1, !.updates = Append(@, batch[k])],
                 LAMBDA st1 : read_updates(labels, batch, k + 1, st1))
\* update.cpp main after the index files are read; dec selects DCL_Dec or DCL_Inc
update_main(nd, chx, labels, batch, dec) ==
    With(read_updates(labels, batch, 1, [node_data |-> nd, updates |-> <<>>, contracted_updates |-> <<>>]),
         LAMBDA in :
    With(IF dec THEN DCL_Dec(chx, labels, in.updates)
         ELSE DCL_Inc(in.node_data, chx, labels, in.updates),
         LAMBDA r :
    [node_data |-> in.node_data, ch |-> r.ch, ub |-> r.ub,
     labels |-> contract_seq(in.node_data, r.labels, in.contracted_updates)]))

\* ------------------------------------------------------------------ actions
NoHistory == [batch |-> <<>>, dec |-> FALSE, ch |-> <<>>, con_index |-> <<>>]
\* no threads are running
NoPar == [grouping |-> TSBucketQueue, threads |-> <<>>, contracted_updates |-> <<>>, reads |-> {}, lifo |-> FALSE]
\* util::par_max_bucket_list after construction
par_max_bucket_list == [buckets |-> <<>>, current_bucket |-> 0, next_in_bucket |-> 0, is_empty |-> TRUE]
\* no labelling threads are running
NoQue == [q |-> par_max_bucket_list, arrived |-> 0, generation |-> 0, threads |-> <<>>, ci0 |-> <<>>]

\* the edges of the graph and the updates of one direction an update file can
\* hold: update.cpp derives the new weight from the old one by a fixed factor,
\* the model draws any weight in that direction
Edges(nd) == {e \in (1..Len(nd)) \X (1..Len(nd)) : e[1] < e[2] /\ edge_weight(nd, e[1], e[2]) # infinity}
Changes(nd, dec) ==
    UNION {{Update(e[1], e[2], edge_weight(nd, e[1], e[2]), new) :
                new \in IF dec THEN 1..(edge_weight(nd, e[1], e[2]) - 1)
                        ELSE (edge_weight(nd, e[1], e[2]) + 1)..MaxNewWeight} : e \in Edges(nd)}
RECURSIVE Batches0(_, _, _)
Batches0(nd, dec, k) ==
    IF k <= 0 THEN {<<>>}
    ELSE LET shorter == Batches0(nd, dec, k - 1)
         IN shorter \cup UNION {{Append(s, x) : x \in
                {y \in Changes(nd, dec) : \A i \in 1..Len(s) : <<s[i].a, s[i].b>> # <<y.a, y.b>>}} :
                    s \in shorter}
Batches(nd, dec, k) == Batches0(nd, dec, k) \ {<<>>}

Init ==
    /\ \E in \in Inputs :
        LET g == read_graph(in)
        IN /\ node_data = g.node_data
           /\ nodes = g.nodes
    /\ closest = <<>>
    /\ ci = <<>>
    /\ ch = <<>>
    /\ con_index = <<>>
    /\ file_cl = <<>>
    /\ file_gs = <<>>
    /\ rounds = 0
    /\ history = NoHistory
    /\ par = NoPar
    /\ que = NoQue
    /\ phase = "read"

Contract ==
    /\ phase = "read"
    /\ LET r == contract(node_data, nodes)
       IN /\ nodes' = r.nodes
          /\ closest' = r.closest
    /\ phase' = "contracted"
    /\ UNCHANGED <<node_data, ci, ch, con_index, file_cl, file_gs, rounds, history, par, que>>

CreateCutIndex ==
    /\ phase = "contracted"
    /\ ci' \in create_cut_index(node_data, nodes, heap_word)
    /\ phase' = "cut"
    /\ UNCHANGED <<node_data, nodes, closest, ch, con_index, file_cl, file_gs, rounds, history, par, que>>

\* g.reset(); g.create_sc_graph(ch, ci, closest)
CreateScGraph ==
    /\ phase = "cut"
    /\ \E all \in {SelectSeq(AsSeq([v \in 1..Len(node_data) |-> v]), LAMBDA v : node_data[v] # <<>>)} :
       \E r \in {create_sc_graph(node_data, all, closest, ci)} :
          /\ nodes' = all
          /\ ch' = r.ch
          /\ ci' = r.ci
    /\ phase' = "sc"
    /\ UNCHANGED <<node_data, closest, con_index, file_cl, file_gs, rounds, history, par, que>>

\* ContractionIndex con_index(ci, closest): builds the labels and clears both vectors
ConstructIndex ==
    /\ phase = "sc"
    /\ con_index' = ContractionIndex(ci, closest)
    /\ ci' = <<>>
    /\ closest' = <<>>
    /\ phase' = "index"
    /\ UNCHANGED <<node_data, nodes, ch, file_cl, file_gs, rounds, history, par, que>>

\* con_index.write(_cl); ch.write(_gs)
WriteIndex ==
    /\ phase = "index"
    /\ file_cl' = ContractionIndex_write(con_index)
    /\ file_gs' = ContractionHierarchy_write(ch)
    /\ phase' = "written"
    /\ UNCHANGED <<node_data, nodes, closest, ci, ch, con_index, rounds, history, par, que>>

\* the start of the update program: the graph and both index files are read back
LoadIndex ==
    /\ phase = "written"
    /\ con_index' = ContractionIndex_read(file_cl)
    /\ ch' = ContractionHierarchy_read(file_gs)
    /\ phase' = "loaded"
    /\ UNCHANGED <<node_data, nodes, closest, ci, file_cl, file_gs, rounds, history, par, que>>

\* one run of the update program on a batch in file order
Apply(batch, dec) ==
    \E r \in {update_main(node_data, ch, con_index, batch, dec)} :
       /\ node_data' = r.node_data
       /\ ch' = r.ch
       /\ con_index' = r.labels
       /\ phase' = IF r.ub THEN "undefined" ELSE "loaded"
       /\ rounds' = rounds + Len(batch)
       /\ history' = [batch |-> batch, dec |-> dec, ch |-> ch, con_index |-> con_index]
       /\ UNCHANGED <<nodes, closest, ci, file_cl, file_gs, par, que>>

\* update <graph> <index> <updates> d
Decrease ==
    /\ phase = "loaded"
    /\ \E batch \in Batches(node_data, TRUE, MaxUpdates - rounds) : Apply(batch, TRUE)

\* update <graph> <index> <updates> i
Increase ==
    /\ phase = "loaded"
    /\ \E batch \in Batches(node_data, FALSE, MaxUpdates - rounds) : Apply(batch, FALSE)

Next ==
    \/ Contract \/ CreateCutIndex \/ CreateScGraph \/ ConstructIndex \/ WriteIndex \/ LoadIndex
    \/ Decrease \/ Increase

Spec == Init /\ [][Next]_vars

\* update.cpp main with the calls of lines 57 and 64 in place of lines 55 and
\* 62: DCL_Dec_Opt or DCL_Inc_Opt maintains the labels
update_main_opt(nd, chx, labels, batch, dec) ==
    With(read_updates(labels, batch, 1, [node_data |-> nd, updates |-> <<>>, contracted_updates |-> <<>>]),
         LAMBDA in :
    With(IF dec THEN DCL_Dec_Opt(chx, labels, in.updates)
         ELSE DCL_Inc_Opt(in.node_data, chx, labels, in.updates),
         LAMBDA r :
    [node_data |-> in.node_data, ch |-> r.ch, ub |-> r.ub,
     labels |-> contract_seq(in.node_data, r.labels, in.contracted_updates)]))

\* one run of the update program built with the optimized maintenance
ApplyOpt(batch, dec) ==
    \E r \in {update_main_opt(node_data, ch, con_index, batch, dec)} :
       /\ node_data' = r.node_data
       /\ ch' = r.ch
       /\ con_index' = r.labels
       /\ phase' = IF r.ub THEN "undefined" ELSE "loaded"
       /\ rounds' = rounds + Len(batch)
       /\ history' = [batch |-> batch, dec |-> dec, ch |-> ch, con_index |-> con_index]
       /\ UNCHANGED <<nodes, closest, ci, file_cl, file_gs, par, que>>

DecreaseOpt ==
    /\ phase = "loaded"
    /\ \E batch \in Batches(node_data, TRUE, MaxUpdates - rounds) : ApplyOpt(batch, TRUE)

IncreaseOpt ==
    /\ phase = "loaded"
    /\ \E batch \in Batches(node_data, FALSE, MaxUpdates - rounds) : ApplyOpt(batch, FALSE)

NextOpt ==
    \/ Contract \/ CreateCutIndex \/ CreateScGraph \/ ConstructIndex \/ WriteIndex \/ LoadIndex
    \/ DecreaseOpt \/ IncreaseOpt

SpecOpt == Init /\ [][NextOpt]_vars

\* ---------------------------------------------------------------------------
\* update.cpp main with the calls of lines 59 and 66 in place of lines 55 and
\* 62: DCL_Dec_Par or DCL_Inc_Par maintains the labels. The threads share the
\* queue of buckets under its mutex; every other access of a thread that works
\* on bucket i is to its own queue, to the hierarchy, which no thread writes,
\* and to slot i of the labels, so one pass of a thread's loop is one step.
Thread == [pc |-> "next_bucket", bq |-> min_bucket_queue, label_index |-> 0]

\* the update file is read, GS_Dec or GS_Inc runs, the loop over C fills the
\* queue of buckets and the threads are started
StartPar(batch, dec) ==
    \E in \in {read_updates(con_index, batch, 1,
                    [node_data |-> node_data, updates |-> <<>>, contracted_updates |-> <<>>])} :
    \E gs \in {IF dec THEN GS_Dec(ch, in.updates) ELSE GS_Inc(in.node_data, ch, in.updates)} :
       /\ node_data' = in.node_data
       /\ ch' = gs.ch
       /\ par' = [grouping |-> IF gs.ub THEN TSBucketQueue
                               ELSE IF dec THEN dcl_dec_par_init(gs.ch, con_index, gs.C, 1, TSBucketQueue)
                               ELSE dcl_inc_par_init(gs.ch, con_index, gs.C, 1, TSBucketQueue),
                  threads |-> AsSeq([t \in 1..MULTI_THREAD_DISTANCES |-> Thread]),
                  contracted_updates |-> in.contracted_updates,
                  reads |-> {},
                  lifo |-> FALSE]
       /\ phase' = IF gs.ub THEN "undefined" ELSE "par"
       /\ history' = [batch |-> batch, dec |-> dec, ch |-> ch, con_index |-> con_index]
       /\ UNCHANGED <<nodes, closest, ci, con_index, file_cl, file_gs, rounds, que>>

DecreasePar ==
    /\ phase = "loaded"
    /\ \E batch \in Batches(node_data, TRUE, MaxUpdates - rounds) : StartPar(batch, TRUE)

IncreasePar ==
    /\ phase = "loaded"
    /\ \E batch \in Batches(node_data, FALSE, MaxUpdates - rounds) : StartPar(batch, FALSE)

\* que.next_bucket(bucket, label_index) and the loop that moves the bucket to bq
NextBucket(t) ==
    /\ phase = "par"
    /\ par.threads[t].pc = "next_bucket"
    /\ IF par.grouping.min_bucket >= Len(par.grouping.buckets)
       THEN par' = [par EXCEPT !.threads[t].pc = "done"]
       ELSE \E r \in {next_bucket(par.grouping)} :
               par' = [par EXCEPT !.grouping = r.q,
                                  !.threads[t] = [pc |-> "pop",
                                                  bq |-> push_bucket(par.threads[t].bq, r.items, r.bucket, 1),
                                                  label_index |-> r.bucket]]
    /\ UNCHANGED <<phase, node_data, nodes, closest, ci, ch, con_index, file_cl, file_gs, rounds, history, que>>

\* the items of a thread's queue below the one that pop returns
Pending(bq) == SubSeq(bq.buckets[bq.min_bucket + 1], 1, Len(bq.buckets[bq.min_bucket + 1]) - 1)
\* pop returns a vertex while a vertex higher in the hierarchy is still queued
PopsOutOfOrder(bq) ==
    \E k \in 1..Len(Pending(bq)) : ch[Pending(bq)[k].v].dist_index < ch[mbq_top(bq).v].dist_index
\* the slots of the up neighbours that a recomputation of slot i of v reads
ReadsOf(v, i) ==
    {[v |-> v, i |-> i, u |-> ch[v].up_neighbors[k].node,
      distance |-> distances(con_index, ch[v].up_neighbors[k].node, i),
      path_count |-> paths(con_index, ch[v].up_neighbors[k].node, i)] :
        k \in {j \in 1..Len(ch[v].up_neighbors) : ch[ch[v].up_neighbors[j].node].dist_index >= i}}

\* one pass of the loop of a thread of DCL_Dec_Par
DecStep(t) ==
    /\ phase = "par"
    /\ history.dec
    /\ par.threads[t].pc = "pop"
    /\ \E r \in {dhcldec(ch, con_index, par.threads[t].bq, par.threads[t].label_index)} :
          /\ con_index' = r.labels
          /\ par' = [par EXCEPT !.threads[t].bq = r.q,
                                !.threads[t].pc = IF mbq_empty(r.q) THEN "next_bucket" ELSE "pop",
                                !.lifo = @ \/ PopsOutOfOrder(par.threads[t].bq)]
          /\ phase' = IF r.ub THEN "undefined" ELSE "par"
    /\ UNCHANGED <<node_data, nodes, closest, ci, ch, file_cl, file_gs, rounds, history, que>>

\* one pass of the loop of a thread of DCL_Inc_Par
IncStep(t) ==
    /\ phase = "par"
    /\ ~history.dec
    /\ par.threads[t].pc = "pop"
    /\ \E r \in {dhclinc(ch, con_index, par.threads[t].bq, par.threads[t].label_index)} :
          /\ con_index' = r.labels
          /\ par' = [par EXCEPT !.threads[t].bq = r.q,
                                !.threads[t].pc = IF mbq_empty(r.q) THEN "next_bucket" ELSE "pop",
                                !.lifo = @ \/ PopsOutOfOrder(par.threads[t].bq),
                                !.reads = IF ~r.ub /\ dhclinc_recomputes(con_index, mbq_top(par.threads[t].bq),
                                                                         par.threads[t].label_index)
                                          THEN @ \cup ReadsOf(mbq_top(par.threads[t].bq).v, par.threads[t].label_index)
                                          ELSE @]
          /\ phase' = IF r.ub THEN "undefined" ELSE "par"
    /\ UNCHANGED <<node_data, nodes, closest, ci, ch, file_cl, file_gs, rounds, history, que>>

\* threads[i].join() for every thread, then g.contract_seq(con_index, contracted_updates)
Join ==
    /\ phase = "par"
    /\ \A t \in 1..Len(par.threads) : par.threads[t].pc = "done"
    /\ con_index' = contract_seq(node_data, con_index, par.contracted_updates)
    /\ par' = [par EXCEPT !.threads = <<>>]
    /\ phase' = "loaded"
    /\ rounds' = rounds + Len(history.batch)
    /\ UNCHANGED <<node_data, nodes, closest, ci, ch, file_cl, file_gs, history, que>>

NextPar ==
    \/ Contract \/ CreateCutIndex \/ CreateScGraph \/ ConstructIndex \/ WriteIndex \/ LoadIndex
    \/ DecreasePar \/ IncreasePar
    \/ \E t \in 1..MULTI_THREAD_DISTANCES : NextBucket(t) \/ DecStep(t) \/ IncStep(t)
    \/ Join

SpecPar == Init /\ [][NextPar]_vars

\* the update program in any of its three builds, run after run
NextAny == Next \/ NextOpt \/ NextPar

SpecAny == Init /\ [][NextAny]_vars
\* ------------------------------------------------- the update file, as read
\* update.cpp lines 31 to 35: distance_t new_weight = weight * 0.5 or
\* weight * 1.5, a double converted back to a 32 bit unsigned by truncation
new_weight(weight, dec) == IF dec THEN weight \div 2 ELSE (3 * weight) \div 2
\* the lines "a b weight" an update file can hold for a graph: an edge of the
\* graph with its current weight
FileChanges(nd, dec) ==
    {Update(e[1], e[2], edge_weight(nd, e[1], e[2]), new_weight(edge_weight(nd, e[1], e[2]), dec)) :
        e \in Edges(nd)}
RECURSIVE FileBatches0(_, _, _)
FileBatches0(nd, dec, k) ==
    IF k <= 0 THEN {<<>>}
    ELSE LET shorter == FileBatches0(nd, dec, k - 1)
         IN shorter \cup UNION {{Append(s, x) : x \in
                {y \in FileChanges(nd, dec) : \A i \in 1..Len(s) : <<s[i].a, s[i].b>> # <<y.a, y.b>>}} :
                    s \in shorter}
FileBatches(nd, dec, k) == FileBatches0(nd, dec, k) \ {<<>>}
\* update <graph> <index> <updates> d, the new weights computed by the program
DecreaseFile ==
    /\ phase = "loaded"
    /\ \E batch \in FileBatches(node_data, TRUE, MaxUpdates - rounds) : Apply(batch, TRUE)
\* update <graph> <index> <updates> i, the new weights computed by the program
IncreaseFile ==
    /\ phase = "loaded"
    /\ \E batch \in FileBatches(node_data, FALSE, MaxUpdates - rounds) : Apply(batch, FALSE)
NextFile ==
    \/ Contract \/ CreateCutIndex \/ CreateScGraph \/ ConstructIndex \/ WriteIndex \/ LoadIndex
    \/ DecreaseFile \/ IncreaseFile
SpecFile == Init /\ [][NextFile]_vars
\* --------------------------------------- create_sc_graph, the labelling threads
\* par_max_bucket_list::push
pmbl_push(q, value, bucket) ==
    With(IF Len(q.buckets) <= bucket
         THEN q.buckets \o AsSeq([i \in 1..(bucket + 1 - Len(q.buckets)) |-> <<>>])
         ELSE q.buckets,
         LAMBDA b : [q EXCEPT !.buckets = [b EXCEPT ![bucket + 1] = Append(@, value)],
                              !.is_empty = FALSE])
\* for (NodeID node : bottom_up_nodes) que.push(node, ch.nodes[node].dist_index)
RECURSIVE pmbl_push_all(_, _, _, _)
pmbl_push_all(q, order, chx, k) ==
    IF k > Len(order) THEN q
    ELSE With(pmbl_push(q, order[k], chx[order[k]].dist_index),
              LAMBDA q1 : pmbl_push_all(q1, order, chx, k + 1))
\* on_complete that leaves the cursor where it is
on_complete_stay(q) == q
\* on_complete that hands the current bucket out again
on_complete_rewind(q) == [q EXCEPT !.next_in_bucket = 0]
\* par_max_bucket_list::on_complete: the cursor moves to the next bucket that is
\* not empty; the loop ends with is_empty when it reaches the last bucket
on_complete(q) ==
    IF q.current_bucket = Len(q.buckets) - 1 THEN [q EXCEPT !.is_empty = TRUE]
    ELSE LET later == {c \in (q.current_bucket + 1)..(Len(q.buckets) - 1) : q.buckets[c + 1] # <<>>}
         IN IF later # {}
            THEN [q EXCEPT !.next_in_bucket = 0,
                           !.current_bucket = CHOOSE c \in later : \A d \in later : c <= d]
            ELSE [q EXCEPT !.next_in_bucket = 0,
                           !.current_bucket = Len(q.buckets) - 1,
                           !.is_empty = TRUE]
\* the body of the loop of dclp for the vertex x
dclp(chx, cx, x) ==
    With(sc_up(chx, cx, x, chx[x].up_neighbors, 1),
         LAMBDA c1 : [c1 EXCEPT ![x].distances = Append(@, 0), ![x].paths = Append(@, 1)])
\* create_sc_graph up to the start of the threads
sc_prepare(nd, ns, cl, cx) ==
    LET st0 == sc_seed_all(nd, cl, sc_init(ns, cl, cx), 1)
        di_order(a, b) == st0.ch[a].dist_index > st0.ch[b].dist_index
        bottom_up_nodes == SortWith(st0.bottom_up_nodes, di_order)
    IN With(sc_bottom_up(bottom_up_nodes, st0, 1),
            LAMBDA st1 : [ch |-> st1.ch, ci |-> st1.cx, bottom_up_nodes |-> bottom_up_nodes])

\* a thread of dclp: its position in que.next, the vertex it was handed and
\* the phase of the barrier it arrived in
ScThread(pc, x, gen) == [pc |-> pc, x |-> x, gen |-> gen]

\* g.reset(); g.create_sc_graph(ch, ci, closest) up to the start of the threads
ScStart ==
    /\ phase = "cut"
    /\ \E all \in {SelectSeq(AsSeq([v \in 1..Len(node_data) |-> v]), LAMBDA v : node_data[v] # <<>>)} :
       \E r \in {sc_prepare(node_data, all, closest, ci)} :
          /\ nodes' = all
          /\ ch' = r.ch
          /\ ci' = r.ci
          /\ que' = [q |-> pmbl_push_all(par_max_bucket_list, r.bottom_up_nodes, r.ch, 1),
                     arrived |-> 0, generation |-> 0,
                     threads |-> AsSeq([t \in 1..MULTI_THREAD_DISTANCES |-> ScThread("next", NO_NODE, 0)]),
                     ci0 |-> r.ci]
    /\ phase' = "sc_par"
    /\ UNCHANGED <<node_data, closest, con_index, file_cl, file_gs, rounds, history, par>>

ScFrame == UNCHANGED <<phase, node_data, nodes, closest, ch, con_index, file_cl, file_gs, rounds, history, par>>
\* que.next: if (is_empty) return false
QueNext(t) ==
    /\ phase = "sc_par"
    /\ que.threads[t].pc = "next"
    /\ que' = [que EXCEPT !.threads[t].pc = IF que.q.is_empty THEN "done" ELSE "lock"]
    /\ UNCHANGED ci
    /\ ScFrame
\* que.next: under the mutex, the next value of the current bucket if there is one
QueLock(t) ==
    /\ phase = "sc_par"
    /\ que.threads[t].pc = "lock"
    /\ IF que.q.next_in_bucket < Len(que.q.buckets[que.q.current_bucket + 1])
       THEN que' = [que EXCEPT !.threads[t] = ScThread("work", que.q.buckets[que.q.current_bucket + 1][que.q.next_in_bucket + 1], @.gen),
                               !.q.next_in_bucket = @ + 1]
       ELSE que' = [que EXCEPT !.threads[t].pc = "arrive1"]
    /\ UNCHANGED ci
    /\ ScFrame
\* dclp: the labels of the vertex handed to thread t
ScWork(t) ==
    /\ phase = "sc_par"
    /\ que.threads[t].pc = "work"
    /\ ci' = dclp(ch, ci, que.threads[t].x)
    /\ que' = [que EXCEPT !.threads[t].pc = "next"]
    /\ ScFrame
\* sync_point.arrive_and_wait(), the arrival: the last of the threads completes the phase
Arrive(t) ==
    /\ phase = "sc_par"
    /\ que.threads[t].pc \in {"arrive1", "arrive2"}
    /\ que' = [que EXCEPT !.threads[t].pc = IF @ = "arrive1" THEN "wait1" ELSE "wait2",
                          !.threads[t].gen = que.generation,
                          !.arrived = IF @ + 1 = MULTI_THREAD_DISTANCES THEN 0 ELSE @ + 1,
                          !.generation = IF que.arrived + 1 = MULTI_THREAD_DISTANCES THEN 1 - @ ELSE @]
    /\ UNCHANGED ci
    /\ ScFrame
\* sync_point.arrive_and_wait(), the wait: returns when the phase of arrival is complete
Pass(t) ==
    /\ phase = "sc_par"
    /\ que.threads[t].pc \in {"wait1", "wait2"}
    /\ que.threads[t].gen # que.generation
    /\ que' = [que EXCEPT !.threads[t].pc = IF @ = "wait2" THEN "next"
                                             ELSE IF t = 1 THEN "on_complete" ELSE "arrive2"]
    /\ UNCHANGED ci
    /\ ScFrame
\* if (thread == 0) on_complete()
OnComplete ==
    /\ phase = "sc_par"
    /\ que.threads[1].pc = "on_complete"
    /\ que' = [que EXCEPT !.q = on_complete(@), !.threads[1].pc = "arrive2"]
    /\ UNCHANGED ci
    /\ ScFrame
\* threads[i].join() for every thread; the queue ends with create_sc_graph
ScJoin ==
    /\ phase = "sc_par"
    /\ \A t \in 1..MULTI_THREAD_DISTANCES : que.threads[t].pc = "done"
    /\ phase' = "sc"
    /\ que' = NoQue
    /\ UNCHANGED <<node_data, nodes, closest, ci, ch, con_index, file_cl, file_gs, rounds, history, par>>

NextSc ==
    \/ Contract
    \/ CreateCutIndex
    \/ ScStart
    \/ \E t \in 1..MULTI_THREAD_DISTANCES : QueNext(t)
    \/ \E t \in 1..MULTI_THREAD_DISTANCES : QueLock(t)
    \/ \E t \in 1..MULTI_THREAD_DISTANCES : ScWork(t)
    \/ \E t \in 1..MULTI_THREAD_DISTANCES : Arrive(t)
    \/ \E t \in 1..MULTI_THREAD_DISTANCES : Pass(t)
    \/ OnComplete
    \/ ScJoin
    \/ ConstructIndex
SpecSc == Init /\ [][NextSc]_vars

\* the build with its labelling threads followed by the parallel updates, with
\* every thread scheduled again and again and the joining thread woken up
ScThreadStep(t) ==
    \/ QueNext(t) \/ QueLock(t) \/ ScWork(t) \/ Arrive(t) \/ Pass(t)
    \/ t = 1 /\ OnComplete
ParThreadStep(t) == NextBucket(t) \/ DecStep(t) \/ IncStep(t)
\* the number of updates the threads of this specification are started on
LiveUpdates == 1
\* DCL_Dec_Par and DCL_Inc_Par on the updates of an update file
DecreaseParFile ==
    /\ phase = "loaded"
    /\ \E batch \in FileBatches(node_data, TRUE, LiveUpdates - rounds) : StartPar(batch, TRUE)
IncreaseParFile ==
    /\ phase = "loaded"
    /\ \E batch \in FileBatches(node_data, FALSE, LiveUpdates - rounds) : StartPar(batch, FALSE)
NextLive ==
    \/ Contract \/ CreateCutIndex
    \/ ScStart
    \/ \E t \in 1..MULTI_THREAD_DISTANCES : ScThreadStep(t)
    \/ ScJoin
    \/ ConstructIndex \/ WriteIndex \/ LoadIndex
    \/ DecreaseParFile \/ IncreaseParFile
    \/ \E t \in 1..MULTI_THREAD_DISTANCES : ParThreadStep(t)
    \/ Join
\* a thread of DCL_Dec_Par or DCL_Inc_Par that has not returned can take a step:
\* next_bucket takes the mutex for a moment only and the loop never waits
ParThreadCanStep(t) == phase = "par" /\ par.threads[t].pc # "done"
\* weak fairness of the steps of every thread and of the joins; for the threads
\* of the updates it is written with the enabling condition of the step
Scheduling ==
    /\ \A t \in 1..MULTI_THREAD_DISTANCES : WF_vars(ScThreadStep(t))
    /\ \A t \in 1..MULTI_THREAD_DISTANCES : ([]<>~ParThreadCanStep(t)) \/ ([]<><<ParThreadStep(t)>>_vars)
    /\ WF_vars(ScJoin)
    /\ WF_vars(Join)
SpecLive == Init /\ [][NextLive]_vars /\ Scheduling
\* ------------------------------------------------- shortest paths, by definition
\* One round of relaxation of the distances d from a source; infinity marks a
\* vertex not reached, true distances stay far below 2^31.
relax(nd, d) ==
    AsSeq([v \in 1..Len(nd) |->
        LET via == {DAdd(d[nd[v][i].node], nd[v][i].distance) :
                        i \in {j \in 1..Len(nd[v]) : d[nd[v][j].node] # infinity}}
            all == via \cup (IF d[v] = infinity THEN {} ELSE {d[v]})
        IN IF all = {} THEN infinity ELSE CHOOSE x \in all : \A y \in all : x <= y])
RECURSIVE relax_rounds(_, _, _)
relax_rounds(nd, d, k) == IF k = 0 THEN d ELSE relax_rounds(nd, relax(nd, d), k - 1)
\* the distances from u to every vertex
shortest_from(nd, u) ==
    relax_rounds(nd, AsSeq([v \in 1..Len(nd) |-> IF v = u THEN 0 ELSE infinity]), Len(nd))
shortest_distance(nd, u, v) == shortest_from(nd, u)[v]
\* the number of shortest paths from the source to v, d the distances from the
\* source: the sum over the last edge (x, v) of the number of shortest paths to x
RECURSIVE shortest_count(_, _, _, _)
RECURSIVE shortest_count_sum(_, _, _, _, _)
shortest_count(nd, d, u, v) ==
    IF v = u THEN 1
    ELSE IF d[v] = infinity THEN 0
    ELSE shortest_count_sum(nd, d, u, v, 1)
shortest_count_sum(nd, d, u, v, i) ==
    IF i > Len(nd[v]) THEN 0
    ELSE LET x == nd[v][i].node
         IN (IF d[x] # infinity /\ d[x] + nd[v][i].distance = d[v]
             THEN shortest_count(nd, d, u, x) ELSE 0)
            + shortest_count_sum(nd, d, u, v, i + 1)
shortest_paths(nd, u, v) == shortest_count(nd, shortest_from(nd, u), u, v)

NonIsolated(nd) == {v \in 1..Len(nd) : nd[v] # <<>>}
connected(nd, u, v) == shortest_distance(nd, u, v) # infinity
DistancesCorrect(nd, labels) ==
    \A u, v \in NonIsolated(nd) : get_distance(labels, u, v) = shortest_distance(nd, u, v)
CountsCorrect(nd, labels) ==
    \A u, v \in NonIsolated(nd) :
        shortest_paths(nd, u, v) <= 65535 => get_spc(labels, u, v) = shortest_paths(nd, u, v)
\* the index as the build pipeline left it: constructed, not yet updated
Built == phase \in {"index", "written", "loaded"} /\ rounds = 0

\* C1: after the build pipeline get_distance(u, v) is the shortest path distance
\* of the input graph for every pair of non-isolated vertices
C1_BuildDistances == Built => DistancesCorrect(node_data, con_index)

\* C2: after the build pipeline get_spc(u, v) is the number of shortest paths of
\* the input graph for every pair of non-isolated vertices with at most 65535 of them
C2_BuildCounts == Built => CountsCorrect(node_data, con_index)

\* the first batch after the build has been applied, by DCL_Dec (dec) or by
\* DCL_Inc, all its edges between vertices that are not contracted
AfterFirstBatch(dec) ==
    /\ phase = "loaded"
    /\ rounds > 0
    /\ rounds = Len(history.batch)
    /\ history.dec = dec
    /\ \A i \in 1..Len(history.batch) :
          /\ history.con_index[history.batch[i].a].parent = NO_NODE
          /\ history.con_index[history.batch[i].b].parent = NO_NODE

\* C3: after a batch of weight decreases on edges between non-contracted vertices
\* and DCL_Dec, every get_distance and every get_spc is that of the mutated graph
C3_DecreaseCorrect ==
    AfterFirstBatch(TRUE) =>
        DistancesCorrect(node_data, con_index) /\ CountsCorrect(node_data, con_index)

\* C4: after a batch of weight increases on edges between non-contracted vertices
\* and DCL_Inc, every get_distance and every get_spc is that of the mutated graph
C4_IncreaseCorrect ==
    AfterFirstBatch(FALSE) =>
        DistancesCorrect(node_data, con_index) /\ CountsCorrect(node_data, con_index)

\* every label slot (distance, path count) of every label block
LabelSlots(labels) ==
    [v \in {x \in 1..Len(labels) : labels[x].data # <<>>} |->
        [i \in 0..(flat_label_count(labels[v].data) - 1) |->
            <<flat_distances(labels[v].data, i), flat_paths(labels[v].data, i)>>]]
\* every edge (distance, path count) of the shortcut graph
DagEdges(chx) == [v \in 1..Len(chx) |-> chx[v].up_neighbors]
\* b2 is the single change that undoes the single change b1
IsInverse(b2, b1) ==
    /\ Len(b1) = 1 /\ Len(b2) = 1
    /\ b2[1].a = b1[1].a /\ b2[1].b = b1[1].b
    /\ b2[1].old = b1[1].new /\ b2[1].new = b1[1].old
\* this step applies, with the opposite procedure, the inverse of the change
\* applied by the step before it; neither end of the edge is contracted
UndoStep ==
    /\ phase = "loaded" /\ phase' = "loaded"
    /\ IsInverse(history'.batch, history.batch)
    /\ history'.dec # history.dec
    /\ con_index[history.batch[1].a].parent = NO_NODE
    /\ con_index[history.batch[1].b].parent = NO_NODE
Restored ==
    /\ LabelSlots(con_index') = LabelSlots(history.con_index)
    /\ DagEdges(ch') = DagEdges(history.ch)

\* C5: a change w -> w' applied with the matching procedure and then its inverse
\* w' -> w applied with the opposite procedure return every label slot and every
\* edge of the shortcut graph to the value it had before the first change
C5_InverseRestores == [][UndoStep => Restored]_vars

\* C6: for two vertices in different connected components of the input graph,
\* contracted or not, get_distance returns infinity and get_spc returns 0
C6_DisconnectedInfinity ==
    Built => \A u, v \in NonIsolated(node_data) :
                ~connected(node_data, u, v) =>
                    get_distance(con_index, u, v) = infinity /\ get_spc(con_index, u, v) = 0

\* the contraction tree: v, its parent, the parent of that, ...
RECURSIVE TreeAncestors(_, _)
TreeAncestors(labels, v) ==
    IF labels[v].parent = NO_NODE THEN {v} ELSE {v} \cup TreeAncestors(labels, labels[v].parent)
\* the common ancestor that is a descendant of every common ancestor
TreeLCA(labels, u, v) ==
    LET common == TreeAncestors(labels, u) \cap TreeAncestors(labels, v)
    IN CHOOSE x \in common : common \subseteq TreeAncestors(labels, x)
SameClass(labels, u, v) == labels[u].cut_index = labels[v].cut_index
Indexed == phase \in {"index", "written", "loaded"}

\* C7: two distinct vertices of one contraction class are at distance
\* offset(u) + offset(v) - 2 * offset(LCA) with one shortest path; a contracted
\* vertex p and a vertex w of another class are at offset(p) + offset(w) plus
\* the distance between their roots, added as distance_t values
C7_ContractionTreeDistance ==
    Indexed => \A u, v \in NonIsolated(node_data) :
        /\ (u # v /\ SameClass(con_index, u, v)) =>
              /\ get_distance(con_index, u, v) =
                    con_index[u].distance_offset + con_index[v].distance_offset
                        - 2 * con_index[TreeLCA(con_index, u, v)].distance_offset
              /\ get_spc(con_index, u, v) = 1
        /\ (~SameClass(con_index, u, v) /\ con_index[u].parent # NO_NODE) =>
              get_distance(con_index, u, v) =
                  DAdd(DAdd(con_index[u].distance_offset, con_index[v].distance_offset),
                       get_distance(con_index, con_index[u].cut_index, con_index[v].cut_index))
\* two contracted vertices whose lowest common ancestor is neither of them, and
\* a contracted vertex with a vertex of another class at a finite distance
C7_Witness ==
    /\ Indexed
    /\ \E u, v \in NonIsolated(node_data) :
          /\ u # v /\ SameClass(con_index, u, v)
          /\ TreeLCA(con_index, u, v) \notin {u, v}
          /\ con_index[TreeLCA(con_index, u, v)].distance_offset > 0
          /\ con_index[u].distance_offset # con_index[v].distance_offset
    /\ \E p, w \in NonIsolated(node_data) :
          /\ ~SameClass(con_index, p, w) /\ con_index[p].parent # NO_NODE
          /\ get_distance(con_index, p, w) = shortest_distance(node_data, p, w)
          /\ get_distance(con_index, p, w) # infinity

\* the label block: the FlatCutIndex::size() bytes from the start of the buffer
Block(data) == SubSeq(data, 1, flat_size(data) \div 2)

\* C8: reading back what write() wrote yields the same node count, the same
\* distance_offset, parent and label block for every vertex (a contracted vertex
\* linked to the block of its root), the same dist_index, up_neighbors and
\* down_neighbors for every node of the hierarchy, and the same answers of
\* get_distance and get_spc for all pairs
C8_WriteReadRoundTrip ==
    [][(phase = "written" /\ phase' = "loaded") =>
        /\ Len(con_index') = Len(con_index)
        /\ \A v \in 1..Len(con_index) :
              /\ con_index'[v].distance_offset = con_index[v].distance_offset
              /\ con_index'[v].parent = con_index[v].parent
              /\ con_index'[v].cut_index = con_index[v].cut_index
              /\ Block(cut_index_of(con_index', v)) = Block(cut_index_of(con_index, v))
        /\ Len(ch') = Len(ch)
        /\ \A v \in 1..Len(ch) :
              /\ ch'[v].dist_index = ch[v].dist_index
              /\ ch'[v].up_neighbors = ch[v].up_neighbors
              /\ ch'[v].down_neighbors = ch[v].down_neighbors
        /\ \A u, v \in 1..Len(con_index) :
              /\ get_distance(con_index', u, v) = get_distance(con_index, u, v)
              /\ get_spc(con_index', u, v) = get_spc(con_index, u, v)]_vars
\* an index read back from its files, with a contracted vertex whose parent is
\* contracted too, a label slot holding infinity or a node with up and down neighbours
C8_Witness ==
    /\ phase = "loaded" /\ rounds = 0
    /\ con_index = ContractionIndex_read(file_cl)
    /\ ch = ContractionHierarchy_read(file_gs)
    /\ \E v \in 1..Len(con_index) :
          /\ con_index[v].parent # NO_NODE
          /\ con_index[con_index[v].parent].parent # NO_NODE
          /\ cut_index_of(con_index, v) # <<>>
    /\ \E v \in 1..Len(ch) : ch[v].up_neighbors # <<>> /\ ch[v].down_neighbors # <<>>

\* the states that hold a shortcut graph
HasHierarchy == phase \in {"sc", "index", "written", "loaded"}

\* C9: after create_sc_graph and after any sequence of update batches, every up
\* neighbour n of a non-contracted vertex v has ch[n].dist_index < ch[v].dist_index
C9_UpNeighborsAscend ==
    HasHierarchy => \A v \in 1..Len(ch) :
        ch[v].dist_index # CONTRACTED =>
            \A k \in 1..Len(ch[v].up_neighbors) :
                /\ ch[v].up_neighbors[k].node \in 1..Len(ch)
                /\ ch[ch[v].up_neighbors[k].node].dist_index < ch[v].dist_index
\* a shortcut graph with a shortcut among its edges, after two update batches,
\* the second of which changed an edge of it
C9_Witness ==
    /\ phase = "loaded"
    /\ rounds = 2 /\ Len(history.batch) = 1
    /\ DagEdges(history.ch) # DagEdges(ch)
    /\ \E v \in 1..Len(ch) : \E k \in 1..Len(ch[v].up_neighbors) :
          edge_weight(node_data, v, ch[v].up_neighbors[k].node) = infinity

\* C10: after create_cut_index and create_sc_graph every non-contracted vertex v
\* of cut level l has l + 1 nondecreasing dist_index entries, no partition bit at
\* position l or above, distances and paths of length dist_index[l], and distance
\* 0 with path count 1 in the last slot, index ch[v].dist_index = dist_index[l] - 1
C10_CutIndexShape ==
    phase = "sc" => \A v \in 1..Len(ci) :
        (node_data[v] # <<>> /\ closest[v].node = v) =>
            LET c == ci[v]
                l == c.cut_level
            IN /\ Len(c.dist_index) = l + 1
               /\ \A i \in 1..l : c.dist_index[i] <= c.dist_index[i + 1]
               /\ c.partition < Pow2(l)
               /\ Len(c.distances) = c.dist_index[l + 1]
               /\ Len(c.paths) = c.dist_index[l + 1]
               /\ ch[v].dist_index = c.dist_index[l + 1] - 1
               /\ c.distances[ch[v].dist_index + 1] = 0
               /\ c.paths[ch[v].dist_index + 1] = 1

\* C11: every neighbor list has at most one entry per neighbor, u is a neighbor
\* of v iff v is a neighbor of u with the same weight, and as long as no update
\* has run the stored weight of a pair is the minimum weight given for it in
\* the input, in either direction.
NoParallel(nd) ==
    \A v \in 1..Len(nd) : \A i, j \in 1..Len(nd[v]) : nd[v][i].node = nd[v][j].node => i = j
is_undirected(nd) ==
    \A v \in 1..Len(nd) : \A i \in 1..Len(nd[v]) :
        \E j \in 1..Len(nd[nd[v][i].node]) :
            /\ nd[nd[v][i].node][j].node = v
            /\ nd[nd[v][i].node][j].distance = nd[v][i].distance
Inserted(in, u, v) ==
    {in.arcs[k][3] : k \in {i \in 1..Len(in.arcs) :
        {in.arcs[i][1], in.arcs[i][2]} = {u, v}}}
Adjacency(nd) == [v \in 1..Len(nd) |-> [i \in 1..Len(nd[v]) |-> nd[v][i].node]]
ReadFrom(in) == Adjacency(node_data) = Adjacency(read_graph(in).node_data)
KeepsMinimum(in) ==
    \A u, v \in 1..in.n :
        Inserted(in, u, v) # {} =>
            \A d \in Inserted(in, u, v) : edge_weight(node_data, u, v) <= d
C11_NeighborLists ==
    /\ node_data # <<>> => NoParallel(node_data) /\ is_undirected(node_data)
    /\ rounds = 0 =>
         \A in \in Inputs :
            node_data = read_graph(in).node_data =>
                /\ KeepsMinimum(in)
                /\ \A u, v \in 1..in.n :
                     IF Inserted(in, u, v) = {} THEN edge_weight(node_data, u, v) = infinity
                     ELSE edge_weight(node_data, u, v) \in Inserted(in, u, v)
\* a graph read from a file that gives an edge twice with different weights,
\* after an update of one of its edges
C11_Witness ==
    /\ rounds > 0
    /\ \E in \in Inputs :
         /\ ReadFrom(in)
         /\ \E u, v \in 1..in.n : Cardinality(Inserted(in, u, v)) > 1
         /\ \E u, v \in 1..in.n :
              /\ edge_weight(node_data, u, v) # infinity
              /\ edge_weight(node_data, u, v) # edge_weight(read_graph(in).node_data, u, v)

\* C12: after GS_Dec or GS_Inc has run on a batch, every edge (v, w) of the
\* shortcut graph has as distance the minimum of the weight of the graph edge
\* v-w and of d(a, v) + d(a, w) over the common down neighbours a of v and w,
\* and as path count the sum over the minimizers: 1 for the graph edge and
\* c(a, v) * c(a, w) for a common down neighbour.
UpEntry(chx, a, v) == chx[a].up_neighbors[UpNeighbor(chx, a, v)]
CommonDown(chx, v, w) ==
    {a \in 1..Len(chx) : chx[a].dist_index # CONTRACTED
                          /\ UpNeighbor(chx, a, v) # 0 /\ UpNeighbor(chx, a, w) # 0}
Via(chx, a, v, w) == DAdd(UpEntry(chx, a, v).distance, UpEntry(chx, a, w).distance)
ScDistance(nd, chx, v, w) ==
    LET cand == {edge_weight(nd, v, w)} \cup {Via(chx, a, v, w) : a \in CommonDown(chx, v, w)}
    IN CHOOSE d \in cand : \A c \in cand : DLeq(d, c)
RECURSIVE SumCounts(_, _, _, _)
SumCounts(chx, S, v, w) ==
    IF S = {} THEN 0
    ELSE LET a == CHOOSE x \in S : TRUE
         IN UpEntry(chx, a, v).path_count * UpEntry(chx, a, w).path_count
                + SumCounts(chx, S \ {a}, v, w)
ScCount(nd, chx, v, w) ==
    LET d == ScDistance(nd, chx, v, w)
    IN (IF edge_weight(nd, v, w) = d THEN 1 ELSE 0)
        + SumCounts(chx, {a \in CommonDown(chx, v, w) : Via(chx, a, v, w) = d}, v, w)
ScConsistent(nd, chx) ==
    \A v \in 1..Len(chx) :
        chx[v].dist_index # CONTRACTED =>
            \A k \in 1..Len(chx[v].up_neighbors) :
                LET e == chx[v].up_neighbors[k]
                IN /\ e.distance = ScDistance(nd, chx, v, e.node)
                   /\ e.distance # infinity => e.path_count = ScCount(nd, chx, v, e.node)
C12_ShortcutsRecomputed ==
    phase = "loaded" /\ rounds > 0 => ScConsistent(node_data, ch)

\* ---------------------------------------------------------------------------
\* C13: a batch of weight decreases maintained by DCL_Dec_Opt, from labels whose
\* path counts are all below 2^15, ends with every label slot (distance, path
\* count) and every edge of the shortcut graph equal to what sequential DCL_Dec
\* produces from the same state, also when the changed edges form a chain
\* (u,v),(v,w).
CountsBelow(labels) ==
    \A v \in DOMAIN LabelSlots(labels) : \A i \in DOMAIN LabelSlots(labels)[v] :
        LabelSlots(labels)[v][i][2] < HighBit
\* what the sequential program makes of the state the last run started from
Sequential == update_main(node_data, history.ch, history.con_index, history.batch, history.dec)
SameAsSequential ==
    \E r \in {Sequential} :
       /\ (phase = "undefined") = r.ub
       /\ DagEdges(ch) = DagEdges(r.ch)
       /\ LabelSlots(con_index) = LabelSlots(r.labels)
C13_DecOptEqualsDec ==
    rounds > 0 /\ history.dec /\ CountsBelow(history.con_index) => SameAsSequential
\* ---------------------------------------------------------------------------
\* C14: a batch of weight increases maintained by DCL_Inc_Opt, from labels whose
\* path counts are all below 2^15, ends with every label slot (distance, path
\* count) and every edge of the shortcut graph equal to what sequential DCL_Inc
\* produces from the same state.
C14_IncOptEqualsInc ==
    rounds > 0 /\ ~history.dec /\ CountsBelow(history.con_index) => SameAsSequential
\* ---------------------------------------------------------------------------
\* C15: when the threads of DCL_Dec_Par have ended, in whatever order they
\* took their steps, every label slot (distance, path count) is what sequential
\* DCL_Dec makes of the same initial state, although a thread pops the vertices
\* of one label index last in first out and not by dist_index.
ParEnded == phase = "loaded" /\ rounds > 0 /\ par.threads = <<>>
SlotsAsSequential == \E r \in {Sequential} : LabelSlots(con_index) = LabelSlots(r.labels)
C15_DecParEqualsDec == ParEnded /\ history.dec => SlotsAsSequential
C15_Witness ==
    /\ ParEnded /\ history.dec
    /\ par.lifo
    /\ LabelSlots(con_index) # LabelSlots(history.con_index)
\* ---------------------------------------------------------------------------
\* C16: when the threads of DCL_Inc_Par have ended, in whatever order they
\* took their steps, every label slot (distance, path count) is what sequential
\* DCL_Inc makes of the same initial state, and every slot of an up neighbour
\* that a recomputation of a slot (v,i) has read held its final value.
ReadsFinal ==
    \A e \in par.reads : /\ e.distance = distances(con_index, e.u, e.i)
                         /\ e.path_count = paths(con_index, e.u, e.i)
C16_IncParEqualsInc == ParEnded /\ ~history.dec => SlotsAsSequential /\ ReadsFinal
\* ---------------------------------------------------------------------------
\* C17: GS_Dec and GS_Inc take the edges off their queue in non-increasing order
\* of the dist_index of the endpoint with the larger dist_index, every edge put
\* on the queue while the edge (v,w) is processed has a key strictly smaller
\* than the dist_index of v, and when GS_Inc recomputes an edge (v,w) no edge
\* (a,v) or (a,w) of a common down neighbour a is still on the queue.
\* the states of the queue loop, one before each pass and the last one
RECURSIVE GsPasses(_, _, _)
GsPasses(nd, st, dec) ==
    IF st.q = <<>> \/ st.ub THEN <<st>>
    ELSE <<st>> \o GsPasses(nd, IF dec THEN gs_dec_pass(st) ELSE gs_inc_pass(nd, st), dec)
\* the queue loop of the GS_Dec or GS_Inc of the last run
GsRun ==
    With(read_updates(history.con_index, history.batch, 1,
                      [node_data |-> node_data, updates |-> <<>>, contracted_updates |-> <<>>]).updates,
         LAMBDA ups :
            GsPasses(node_data,
                     IF history.dec
                     THEN gs_dec_init(ups, 1, [ch |-> history.ch, q |-> <<>>, C |-> <<>>, ub |-> FALSE])
                     ELSE gs_inc_init(ups, 1, [ch |-> history.ch, q |-> <<>>, C |-> <<>>, ub |-> FALSE]),
                     history.dec))
AtLeast(q, key) == Cardinality({j \in 1..Len(q) : q[j].dist_index >= key})
KeyIsLowerEnd(st) ==
    \A j \in 1..Len(st.q) : /\ st.q[j].dist_index = st.ch[st.q[j].v].dist_index
                            /\ st.ch[st.q[j].w].dist_index <= st.q[j].dist_index
PopsInOrder(R) ==
    \A k \in 1..(Len(R) - 1) :
        /\ KeyIsLowerEnd(R[k])
        /\ \A j \in 1..Len(R[k].q) : R[k].q[j].dist_index <= pq_top(R[k].q).dist_index
        /\ R[k + 1].q # <<>> => pq_top(R[k + 1].q).dist_index <= pq_top(R[k].q).dist_index
PushesBelow(R) ==
    \A k \in 1..(Len(R) - 1) :
        ~R[k + 1].ub =>
            AtLeast(R[k + 1].q, R[k].ch[pq_top(R[k].q).v].dist_index)
                = AtLeast(pq_pop(R[k].q), R[k].ch[pq_top(R[k].q).v].dist_index)
NothingPending(R) ==
    \A k \in 1..(Len(R) - 1) :
        ~R[k + 1].ub /\ gs_inc_recomputes(R[k].ch, pq_top(R[k].q)) =>
            \A j \in 1..Len(R[k + 1].q) :
                ~(/\ R[k + 1].q[j].v \in CommonDown(R[k].ch, pq_top(R[k].q).v, pq_top(R[k].q).w)
                  /\ R[k + 1].q[j].w \in {pq_top(R[k].q).v, pq_top(R[k].q).w})
C17_QueueOrder ==
    rounds > 0 /\ par = NoPar =>
        \E R \in {GsRun} : PopsInOrder(R) /\ PushesBelow(R) /\ (~history.dec => NothingPending(R))
\* an increase whose GS_Inc put an edge on the queue while it processed another
\* one and recomputed an edge that has a common down neighbour
C17_Witness ==
    /\ phase = "loaded" /\ rounds > 0 /\ ~history.dec /\ par = NoPar
    /\ \E R \in {GsRun} :
          /\ \E k \in 1..(Len(R) - 1) : Len(R[k + 1].q) >= Len(R[k].q)
          /\ \E k \in 1..(Len(R) - 1) :
                /\ gs_inc_recomputes(R[k].ch, pq_top(R[k].q))
                /\ CommonDown(R[k].ch, pq_top(R[k].q).v, pq_top(R[k].q).w) # {}
\* ---------------------------------------------------------------------------
\* C18: sequential DCL_Dec and DCL_Inc pop the label updates (v,i) in
\* nondecreasing order of the dist_index of v: pop returns an item of the
\* smallest bucket that is not empty, and every item pushed while v is processed
\* goes to a bucket strictly above that of v, so no update of an ancestor is
\* processed after an update of one of its descendants.
\* the states of the queue loop, one before each pass and the last one
RECURSIVE DclPasses(_, _, _)
DclPasses(chx, st, dec) ==
    IF mbq_empty(st.q) \/ st.ub THEN <<st>>
    ELSE <<st>> \o DclPasses(chx, IF dec THEN dcl_dec_pass(chx, st) ELSE dcl_inc_pass(chx, st), dec)
\* the queue loop of the DCL_Dec or DCL_Inc of the last run, with the hierarchy it works on
DclRun ==
    With(read_updates(history.con_index, history.batch, 1,
                      [node_data |-> node_data, updates |-> <<>>, contracted_updates |-> <<>>]).updates,
         LAMBDA ups :
    With(IF history.dec THEN GS_Dec(history.ch, ups) ELSE GS_Inc(node_data, history.ch, ups),
         LAMBDA gs :
            [ch |-> gs.ch,
             passes |-> IF gs.ub THEN <<>>
                        ELSE DclPasses(gs.ch,
                                [labels |-> history.con_index, ub |-> FALSE,
                                 q |-> IF history.dec
                                       THEN dcl_dec_init(gs.ch, history.con_index, gs.C, 1, min_bucket_queue)
                                       ELSE dcl_inc_init(gs.ch, history.con_index, gs.C, 1, min_bucket_queue)],
                                history.dec)]))
BucketIsDistIndex(chx, q) ==
    \A b \in 1..Len(q.buckets) : \A j \in 1..Len(q.buckets[b]) : chx[q.buckets[b][j].v].dist_index = b - 1
PopsSmallestBucket(q) ==
    /\ q.buckets[q.min_bucket + 1] # <<>>
    /\ \A b \in 1..Len(q.buckets) : q.buckets[b] # <<>> => b - 1 >= q.min_bucket
BucketLen(q, b) == IF b <= Len(q.buckets) THEN Len(q.buckets[b]) ELSE 0
PushesAbove(before, after, key) ==
    \A b \in 1..(key + 1) : BucketLen(after, b) = BucketLen(mbq_pop(before), b)
AncestorsFirst(chx, R) ==
    \A k \in 1..(Len(R) - 1) :
        /\ BucketIsDistIndex(chx, R[k].q)
        /\ PopsSmallestBucket(R[k].q)
        /\ ~R[k + 1].ub => PushesAbove(R[k].q, R[k + 1].q, chx[mbq_top(R[k].q).v].dist_index)
        /\ \A j \in 1..(k - 1) : chx[mbq_top(R[j].q).v].dist_index <= chx[mbq_top(R[k].q).v].dist_index
C18_BucketOrder ==
    rounds > 0 /\ par = NoPar => \E r \in {DclRun} : AncestorsFirst(r.ch, r.passes)
\* a run that pushed an item while it processed another one and that popped
\* items of vertices of different dist_index
C18_Witness ==
    /\ phase = "loaded" /\ rounds > 0 /\ par = NoPar
    /\ \E r \in {DclRun} :
          /\ \E k \in 1..(Len(r.passes) - 1) :
                mbq_pop(r.passes[k].q).buckets # r.passes[k + 1].q.buckets
          /\ \E j, k \in 1..(Len(r.passes) - 1) :
                r.ch[mbq_top(r.passes[j].q).v].dist_index < r.ch[mbq_top(r.passes[k].q).v].dist_index
\* ---------------------------------------------------------------------------
\* C19: once create_sc_graph has run, and after any update, the down neighbours
\* of every vertex n of the shortcut graph are a list without duplicates, in
\* ascending order of vertex id, of exactly the vertices that have n among
\* their up neighbours.
Ascending(s) == \A j \in 1..(Len(s) - 1) : s[j] < s[j + 1]
HasUp(chx, u, n) == \E k \in 1..Len(chx[u].up_neighbors) : chx[u].up_neighbors[k].node = n
C19_DownNeighborsSorted ==
    HasHierarchy =>
        \A n \in 1..Len(ch) :
            /\ Ascending(ch[n].down_neighbors)
            /\ Range(ch[n].down_neighbors) = {u \in 1..Len(ch) : HasUp(ch, u, n)}
\* ---------------------------------------------------------------------------
\* C20: once create_sc_graph has run, of any two distinct up neighbours of a
\* vertex the one with the larger dist_index has the other among its up
\* neighbours, and every graph edge between two vertices that are not
\* contracted has an entry in the shortcut graph; so every UpNeighbor call of
\* GS_Dec, GS_Inc and the DCL variants for updates on existing edges returns
\* from inside its loop.
Lower(chx, a, b) == IF chx[a].dist_index < chx[b].dist_index THEN b ELSE a
Upper(chx, a, b) == IF chx[a].dist_index < chx[b].dist_index THEN a ELSE b
UpNodes(chx, v) == {chx[v].up_neighbors[k].node : k \in 1..Len(chx[v].up_neighbors)}
PairsLinked(chx) ==
    \A v \in 1..Len(chx) : \A a, b \in UpNodes(chx, v) :
        a # b => HasUp(chx, Lower(chx, a, b), Upper(chx, a, b))
EdgesLinked(nd, chx) ==
    \A e \in Edges(nd) :
        chx[e[1]].dist_index # CONTRACTED /\ chx[e[2]].dist_index # CONTRACTED
            => HasUp(chx, Lower(chx, e[1], e[2]), Upper(chx, e[1], e[2]))
LabelOwners(labels) == {x \in 1..Len(labels) : labels[x].data # <<>>}
\* the cut of label block b lies on the path from the root of the partition
\* tree to the cut of label block a
SameBranch(a, b) ==
    /\ flat_cut_level(b) <= flat_cut_level(a)
    /\ PBV_lca_level(flat_bv(a), flat_bv(b)) >= flat_cut_level(b)
\* the vertices whose own slot is slot i of the label of v
HubsOf(labels, v, i) ==
    {w \in LabelOwners(labels) : /\ flat_label_count(labels[w].data) = i + 1
                                 /\ SameBranch(labels[v].data, labels[w].data)}
\* no label slot holds less than the distance from its vertex to its hub
LabelsNotBelow(nd, labels) ==
    \A v \in LabelOwners(labels) : \A i \in 0..(flat_label_count(labels[v].data) - 1) :
        \A w \in HubsOf(labels, v, i) :
            DLeq(shortest_distance(nd, v, w), flat_distances(labels[v].data, i))
\* no query answers less than the distance of the graph
AnswersNotBelow(nd, labels) ==
    \A u, v \in NonIsolated(nd) : DLeq(shortest_distance(nd, u, v), get_distance(labels, u, v))

\* C21: a sum with a label slot that holds infinity counts as infinity, never as
\* the small number 32 bit wraparound gives: in every index, built or updated, no
\* stored label distance and no answer of get_distance is smaller than the
\* shortest distance of the graph
C21_InfinityAbsorbs ==
    Indexed => LabelsNotBelow(node_data, con_index) /\ AnswersNotBelow(node_data, con_index)

\* every edge weight of the graph is strictly positive
WeightsPositive(nd) == \A v \in 1..Len(nd) : \A i \in 1..Len(nd[v]) : nd[v][i].distance > 0
\* every contracted vertex has a positive distance_offset, which is what lets
\* write() and the destructor tell it from the vertex that owns the label block
PendantsApart(labels) ==
    \A v \in 1..Len(labels) : labels[v].parent # NO_NODE => labels[v].distance_offset > 0

\* C22: after any sequence of update files applied by the update program (new
\* weight w * 0.5 in mode d, w * 1.5 in mode i, stored as distance_t) every edge
\* weight is strictly positive and every contracted vertex keeps a
\* distance_offset above 0
C22_WeightsStayPositive ==
    phase = "loaded" /\ rounds > 0 => WeightsPositive(node_data) /\ PendantsApart(con_index)

\* every vertex that is not contracted has distance_offset 0, every contracted
\* vertex that of its parent plus the weight of the edge to its parent
OffsetsConsistent(nd, labels) ==
    \A v \in 1..Len(labels) :
        IF labels[v].parent = NO_NODE THEN labels[v].distance_offset = 0
        ELSE labels[v].distance_offset =
                DAdd(labels[labels[v].parent].distance_offset, edge_weight(nd, v, labels[v].parent))
\* the contracted updates the last run of the update program collected
SeqUpdates ==
    SortWith(read_updates(history.con_index, history.batch, 1,
                 [node_data |-> node_data, updates |-> <<>>, contracted_updates |-> <<>>]).contracted_updates,
             contracted_less)
\* the labels before each pass of the loop of contract_seq, and after the last
RECURSIVE SeqPasses(_, _, _, _)
SeqPasses(nd, labels, cu, k) ==
    IF k > Len(cu) THEN <<labels>>
    ELSE <<labels>> \o SeqPasses(nd, seq_updates(nd, labels, SubSeq(cu, 1, k), k), cu, k + 1)
\* pass k skips its update
SeqSkips(R, cu, k) == cu[k].old # R[k][cu[k].node].distance_offset
\* every skipped update finds the offset its vertex ends with, set by the
\* search of an earlier update that was not skipped
SkipsOnlyDone(R, cu) ==
    \A k \in 1..Len(cu) :
        SeqSkips(R, cu, k) =>
            /\ R[k][cu[k].node].distance_offset = R[Len(R)][cu[k].node].distance_offset
            /\ \E j \in 1..(k - 1) :
                  /\ ~SeqSkips(R, cu, j)
                  /\ R[j + 1][cu[k].node].distance_offset # R[j][cu[k].node].distance_offset

\* C23: after the update program has translated the changes on edges of
\* contracted vertices and contract_seq has run, every contracted vertex has
\* distance_offset = distance_offset of its parent + the current weight of the
\* edge to its parent, roots have 0, and an update is skipped only when the
\* search of an earlier update has already set the final offset of its vertex
C23_OffsetsFollowParents ==
    phase = "loaded" /\ rounds > 0 =>
        /\ OffsetsConsistent(node_data, con_index)
        /\ \E cu \in {SeqUpdates} :
              \E R \in {SeqPasses(node_data, history.con_index, cu, 1)} :
                 /\ \A v \in 1..Len(con_index) :
                       R[Len(R)][v].distance_offset = con_index[v].distance_offset
                 /\ SkipsOnlyDone(R, cu)
\* a run with two changes on one parent chain, the second of them skipped
C23_Witness ==
    /\ phase = "loaded" /\ rounds > 0
    /\ \E cu \in {SeqUpdates} :
          \E R \in {SeqPasses(node_data, history.con_index, cu, 1)} :
             /\ Len(cu) = 2
             /\ con_index[cu[2].node].parent = cu[1].node
             /\ ~SeqSkips(R, cu, 1)
             /\ SeqSkips(R, cu, 2)

\* the states of the queue loop of DCL_Dec_Opt or DCL_Inc_Opt, one before each
\* pass and the last one
RECURSIVE OptPasses(_, _, _)
OptPasses(chx, st, dec) ==
    IF mbq_empty(st.q) \/ st.ub THEN <<st>>
    ELSE <<st>> \o OptPasses(chx, IF dec THEN dcl_dec_opt_pass(chx, st) ELSE dcl_inc_opt_pass(chx, st), dec)
\* the queue loop of the DCL_Dec_Opt or DCL_Inc_Opt of the last run, entered
\* with the queue and the labels its loop over C has left
OptRun ==
    With(read_updates(history.con_index, history.batch, 1,
                      [node_data |-> node_data, updates |-> <<>>, contracted_updates |-> <<>>]).updates,
         LAMBDA ups :
    With(IF history.dec THEN GS_Dec(history.ch, ups) ELSE GS_Inc(node_data, history.ch, ups),
         LAMBDA gs :
            [ch |-> gs.ch,
             passes |-> IF gs.ub THEN <<>>
                        ELSE With([labels |-> history.con_index, ub |-> FALSE, q |-> min_bucket_queue],
                                  LAMBDA st0 :
                                     OptPasses(gs.ch,
                                        IF history.dec THEN dcl_dec_opt_init(gs.ch, gs.C, 1, st0)
                                        ELSE dcl_inc_opt_init(gs.ch, gs.C, 1, st0),
                                        history.dec))]))
\* the queue entries for slot (v, i)
Entries(q, v, i) ==
    {<<b, j>> \in (1..Len(q.buckets)) \X (1..Len(history.con_index)) :
        /\ j <= Len(q.buckets[b])
        /\ q.buckets[b][j].v = v /\ q.buckets[b][j].i = i}
Slots(labels) ==
    {<<v, i>> \in LabelOwners(labels) \X (0..Len(labels)) : i < flat_label_count(labels[v].data)}
\* bit 15 is set in exactly the slots with one pending entry, no slot has two,
\* and every entry carries the values its slot had when the procedure began
PendingMarked(st) ==
    \A s \in Slots(st.labels) :
        /\ Cardinality(Entries(st.q, s[1], s[2])) <= 1
        /\ marked(paths(st.labels, s[1], s[2])) <=> Cardinality(Entries(st.q, s[1], s[2])) = 1
        /\ \A e \in Entries(st.q, s[1], s[2]) :
              /\ st.q.buckets[e[1]][e[2]].distance = distances(history.con_index, s[1], s[2])
              /\ st.q.buckets[e[1]][e[2]].path_count = paths(history.con_index, s[1], s[2])
NoneMarked(labels) == \A s \in Slots(labels) : ~marked(paths(labels, s[1], s[2]))

\* C24: during DCL_Dec_Opt and DCL_Inc_Opt bit 15 of paths[i] of a slot (v,i) is
\* set iff exactly one queue entry for (v,i) is pending, no slot has two pending
\* entries, every entry carries the original distance and path count of its
\* slot, and at the return the queue is empty and no slot has bit 15 set
C24_PendingBit ==
    phase = "loaded" /\ rounds > 0 =>
        \E R \in {OptRun.passes} :
            /\ \A k \in 1..Len(R) : PendingMarked(R[k])
            /\ mbq_empty(R[Len(R)].q)
            /\ NoneMarked(R[Len(R)].labels)
            /\ NoneMarked(con_index)

\* the queue of buckets as the loop over C of the running DCL_Dec_Par or
\* DCL_Inc_Par filled it, before any thread was started
InitialGrouping ==
    With(read_updates(history.con_index, history.batch, 1,
                      [node_data |-> node_data, updates |-> <<>>, contracted_updates |-> <<>>]).updates,
         LAMBDA ups :
    With(IF history.dec THEN GS_Dec(history.ch, ups) ELSE GS_Inc(node_data, history.ch, ups),
         LAMBDA gs :
            IF history.dec THEN dcl_dec_par_init(gs.ch, history.con_index, gs.C, 1, TSBucketQueue)
            ELSE dcl_inc_par_init(gs.ch, history.con_index, gs.C, 1, TSBucketQueue)))
\* every item a thread's own queue holds
RECURSIVE AllItems(_, _)
AllItems(buckets, b) == IF b > Len(buckets) THEN <<>> ELSE buckets[b] \o AllItems(buckets, b + 1)
Working(t) == par.threads[t].pc = "pop"
\* thread t leaves next_bucket with a bucket in this step
Handed(t) == par.threads[t].pc = "next_bucket" /\ par'.threads[t].pc = "pop"
\* the bucket handed is the smallest one not handed before, it is not empty,
\* the thread receives exactly its items, the bucket is emptied and passed for
\* good, and every other thread at work holds a bucket handed earlier
HandsOnce(t) ==
    LET g == par.grouping
        b == g.min_bucket
    IN /\ g.buckets[b + 1] # <<>>
       /\ par'.threads[t].label_index = b
       /\ AllItems(par'.threads[t].bq.buckets, 1) = g.buckets[b + 1]
       /\ par'.grouping.buckets = [g.buckets EXCEPT ![b + 1] = <<>>]
       /\ par'.grouping.min_bucket > b
       /\ \A u \in 1..Len(par.threads) : u # t =>
             /\ par'.threads[u] = par.threads[u]
             /\ Working(u) => par.threads[u].label_index < b
\* no two threads at work hold the same label index, the buckets handed are
\* empty, and the buckets not yet handed are as the loop over C left them
BucketsApart ==
    /\ \A t, u \in 1..Len(par.threads) :
          t # u /\ Working(t) /\ Working(u) => par.threads[t].label_index # par.threads[u].label_index
    /\ \E g0 \in {InitialGrouping} :
          /\ Len(par.grouping.buckets) = Len(g0.buckets)
          /\ \A b \in 1..Len(g0.buckets) :
                par.grouping.buckets[b] =
                    IF b - 1 < par.grouping.min_bucket THEN <<>> ELSE g0.buckets[b]
\* the step changes the queue of buckets
GroupingChanges == phase = "par" /\ phase' = "par" /\ par'.grouping # par.grouping

\* C25: in DCL_Dec_Par and DCL_Inc_Par, under every interleaving, next_bucket
\* hands each non-empty bucket of a label index to exactly one thread exactly
\* once, so no two threads work on the same label slot (v,i), and no queued
\* update is lost or processed twice: all buckets are empty when the threads
\* have ended
C25_BucketsHandedOnce ==
    /\ [](phase = "par" => BucketsApart)
    /\ [](ParEnded => \A b \in 1..Len(par.grouping.buckets) : par.grouping.buckets[b] = <<>>)
    /\ [][/\ \A t \in 1..Len(par.threads) : (phase = "par" /\ phase' = "par" /\ Handed(t)) => HandsOnce(t)
          /\ GroupingChanges => \E t \in 1..Len(par.threads) : Handed(t)]_vars
\* two threads at work at the same time, each on the bucket of its own label
\* index, in a run whose queue held at least two buckets that were not empty
C25_Witness ==
    /\ phase = "par"
    /\ \E t, u \in 1..Len(par.threads) :
          /\ t # u /\ Working(t) /\ Working(u)
          /\ par.threads[t].label_index # par.threads[u].label_index
          /\ con_index # history.con_index

\* ---------------------------------------------------------------------------
\* C26: in the labelling threads of create_sc_graph, under every interleaving,
\* each pushed vertex is handed to exactly one thread exactly once; no thread
\* holds a vertex of a bucket while a vertex of an earlier bucket is still
\* unfinished; only thread 0 runs on_complete, and while it does every other
\* thread has arrived at the first barrier and not left the second; and while a thread processes x the label of every
\* up neighbour of x is complete, self slot included, and in no thread's
\* hands. When every thread has returned every pushed vertex has been
\* processed once and the labels are those of one thread taking the buckets
\* in order.
ScPushed == {v \in Range(nodes) : closest[v].node = v}
ScDone(v) == Len(ci[v].distances) = ch[v].dist_index + 1
ScHolders(v) == {t \in DOMAIN que.threads : que.threads[t].pc = "work" /\ que.threads[t].x = v}
ScHanded(v) ==
    \/ ch[v].dist_index < que.q.current_bucket
    \/ /\ ch[v].dist_index = que.q.current_bucket
       /\ \E i \in 1..que.q.next_in_bucket : que.q.buckets[que.q.current_bucket + 1][i] = v
HandedOnce ==
    \A v \in ScPushed :
        /\ \E i \in DOMAIN que.q.buckets[ch[v].dist_index + 1] : que.q.buckets[ch[v].dist_index + 1][i] = v
        /\ Cardinality(ScHolders(v)) <= 1
        /\ Len(ci[v].distances) = ch[v].dist_index + (IF ScHanded(v) /\ ScHolders(v) = {} THEN 1 ELSE 0)
        /\ ScHolders(v) # {} => ScHanded(v)
BucketsInTurn ==
    \A v \in ScPushed : ScHolders(v) # {} =>
        \A u \in ScPushed : ch[u].dist_index < ch[v].dist_index => ScDone(u) /\ ScHolders(u) = {}
OnCompleteAlone ==
    \A t \in DOMAIN que.threads :
        /\ que.threads[t].pc = "on_complete" => t = 1
        /\ que.threads[1].pc = "on_complete" /\ t # 1 => que.threads[t].pc \in {"wait1", "arrive2", "wait2"}
UpNeighborsComplete ==
    \A v \in ScPushed : ScHolders(v) # {} =>
        \A k \in DOMAIN ch[v].up_neighbors :
            \E n \in {ch[v].up_neighbors[k].node} :
                /\ n \in ScPushed
                /\ ScDone(n)
                /\ ScHolders(n) = {}
                /\ ci[n].distances[ch[n].dist_index + 1] = 0
                /\ ci[n].paths[ch[n].dist_index + 1] = 1
ScSequential ==
    LET bucket_order(a, b) == ch[a].dist_index < ch[b].dist_index
    IN sc_labels(SortWith(SelectSeq(nodes, LAMBDA v : closest[v].node = v), bucket_order), ch, que.ci0, 1)
C26_BucketsInTurn ==
    /\ phase = "sc_par" => HandedOnce /\ BucketsInTurn /\ OnCompleteAlone /\ UpNeighborsComplete
    /\ phase = "sc_par" /\ (\A t \in DOMAIN que.threads : que.threads[t].pc = "done") =>
            (\A v \in ScPushed : ScDone(v)) /\ ci = ScSequential
C26_Witness ==
    /\ phase = "sc_par"
    /\ \E v, w \in ScPushed :
        /\ v # w
        /\ ScHolders(v) # {} /\ ScHolders(w) # {}
        /\ ch[v].up_neighbors # <<>>

\* ---------------------------------------------------------------------------
\* C27: every phase runs to completion. With every thread scheduled again and
\* again, the labelling threads of create_sc_graph all return and are joined,
\* and the threads of DCL_Dec_Par and DCL_Inc_Par all return and are joined;
\* once a labelling thread has returned no thread is on its way to a barrier
\* or waits at one whose phase is not complete, so none waits forever; when
\* the threads of an update have returned every queue is empty.
ScReturned == {t \in DOMAIN que.threads : que.threads[t].pc = "done"}
ScWaiting ==
    {t \in DOMAIN que.threads :
        \/ que.threads[t].pc \in {"arrive1", "arrive2"}
        \/ que.threads[t].pc \in {"wait1", "wait2"} /\ que.threads[t].gen = que.generation}
NoneLeftBehind == phase = "sc_par" /\ ScReturned # {} => ScWaiting = {}
QueuesEmpty ==
    /\ \A b \in DOMAIN par.grouping.buckets : par.grouping.buckets[b] = <<>>
    /\ \A t \in DOMAIN par.threads : mbq_empty(par.threads[t].bq)
ParReturned == phase = "par" /\ \A t \in DOMAIN par.threads : par.threads[t].pc = "done"
RECURSIVE PartitionsMade(_, _, _)
PartitionsMade(nd, ns, cut_level) ==
    IF Len(ns) < 2 \/ cut_level >= MAX_CUT_LEVEL THEN {}
    ELSE UNION {{[nodes |-> ns, cut_level |-> cut_level, left |-> p.left, cut |-> p.cut, right |-> p.right]}
                    \cup PartitionsMade(nd, p.left, cut_level + 1)
                    \cup PartitionsMade(nd, p.right, cut_level + 1) : p \in create_partition(nd, ns)}
NoRepeat(s) == Cardinality(Range(s)) = Len(s)
Separates(nd, r) ==
    /\ NoRepeat(r.left) /\ NoRepeat(r.cut) /\ NoRepeat(r.right)
    /\ Range(r.left) \cap Range(r.cut) = {}
    /\ Range(r.left) \cap Range(r.right) = {}
    /\ Range(r.cut) \cap Range(r.right) = {}
    /\ Range(r.left) \cup Range(r.cut) \cup Range(r.right) = Range(r.nodes)
    /\ \A u \in Range(r.left) : \A k \in DOMAIN nd[u] : nd[u][k].node \notin Range(r.right)
C28_CutSeparates ==
    phase = "cut" => \A r \in PartitionsMade(node_data, nodes, 0) : Separates(node_data, r)
C28_Witness ==
    /\ phase = "cut"
    /\ \E r \in PartitionsMade(node_data, nodes, 0) :
            /\ r.cut_level > 0
            /\ r.left # <<>> /\ r.cut # <<>> /\ r.right # <<>>
    /\ \E g \in get_rough_partition(node_data, nodes, TRUE) : ~g.fine

\* ---------------------------------------------------------------------------
\* C29: every cut min_vertex_cuts returns for a flow graph built by
\* rough_partition_to_cuts holds neither s nor t and no vertex twice, lies in
\* the flow graph, leaves no path from s to t when its vertices are removed,
\* and no set of fewer vertices does; by Menger's theorem its size is then the
\* largest number of internally vertex-disjoint paths from s to t.
\* the flow graphs rough_partition_to_cuts builds during create_cut_index
FlowGraphs(nd, ns) ==
    UNION {{rough_partition_graph(nd, g) : g \in {h \in get_rough_partition(nd, r.nodes, TRUE) : ~h.fine}} :
                r \in PartitionsMade(nd, ns, 0)}
RECURSIVE ReachFrom(_, _, _)
ReachFrom(nd, S, X) ==
    With(X \cup {w \in S : \E v \in X : \E k \in DOMAIN nd[v] : nd[v][k].node = w},
         LAMBDA Y : IF Y = X THEN X ELSE ReachFrom(nd, S, Y))
Joined(g, X) == g.t \in ReachFrom(g.nd, Range(g.center) \ X, {g.s})
MinimumCut(g, cut) ==
    /\ NoRepeat(cut)
    /\ Range(cut) \subseteq Range(g.center) \ {g.s, g.t}
    /\ ~Joined(g, Range(cut))
    /\ \A X \in SUBSET (Range(g.center) \ {g.s, g.t}) : Cardinality(X) < Len(cut) => Joined(g, X)
CutsOf(g) == min_vertex_cuts(g.nd, g.center, g.s, g.t)
C29_CutsAreMinimum ==
    phase = "cut" => \A g \in FlowGraphs(node_data, nodes) :
        \A k \in DOMAIN CutsOf(g) : MinimumCut(g, CutsOf(g)[k])
C29_Witness ==
    /\ phase = "cut"
    /\ \E g \in FlowGraphs(node_data, nodes) :
            /\ Len(CutsOf(g)) = 2
            /\ CutsOf(g)[1] # <<>>

\* ---------------------------------------------------------------------------
\* C30: DCL_Dec, DCL_Inc, their Opt variants and the threads of the Par
\* variants leave in place everything but the distance and path count of the
\* entries of the shortcut graph and of the label slots: the up and down
\* neighbours of every vertex and their order, every dist_index of the
\* hierarchy, the bitvector, the dist_index array and the size of every label,
\* the parents, offsets and buffer owners of all vertices, and the neighbours
\* in the adjacency lists of the graph; and the shortcut graph they return is
\* the one GS_Dec or GS_Inc made.
FrameDag(old, new) ==
    /\ Len(new) = Len(old)
    /\ \A v \in DOMAIN old :
          /\ new[v].dist_index = old[v].dist_index
          /\ new[v].down_neighbors = old[v].down_neighbors
          /\ Len(new[v].up_neighbors) = Len(old[v].up_neighbors)
          /\ \A k \in DOMAIN old[v].up_neighbors : new[v].up_neighbors[k].node = old[v].up_neighbors[k].node
FrameLabels(old, new) ==
    /\ Len(new) = Len(old)
    /\ \A v \in DOMAIN old :
          /\ new[v].cut_index = old[v].cut_index
          /\ new[v].parent = old[v].parent
          /\ new[v].distance_offset = old[v].distance_offset
          /\ Len(new[v].data) = Len(old[v].data)
          /\ old[v].data # <<>> =>
                SubSeq(new[v].data, 1, distances_at(old[v].data)) = SubSeq(old[v].data, 1, distances_at(old[v].data))
\* the maintenance procedures of the sequential and the optimized build, run on
\* the state at hand for the batch and direction of the step
FrameRuns(batch, dec) ==
    \E in \in {read_updates(con_index, batch, 1,
                    [node_data |-> node_data, updates |-> <<>>, contracted_updates |-> <<>>])} :
    \E gs \in {IF dec THEN GS_Dec(ch, in.updates) ELSE GS_Inc(in.node_data, ch, in.updates)} :
    \A r \in {IF dec THEN DCL_Dec(ch, con_index, in.updates) ELSE DCL_Inc(in.node_data, ch, con_index, in.updates),
               IF dec THEN DCL_Dec_Opt(ch, con_index, in.updates) ELSE DCL_Inc_Opt(in.node_data, ch, con_index, in.updates)} :
        /\ ~r.ub
        /\ FrameDag(ch, r.ch)
        /\ FrameLabels(con_index, r.labels)
        /\ r.ch = gs.ch
FrameStep ==
    /\ phase = "loaded" /\ rounds' > rounds =>
          /\ FrameRuns(history'.batch, history'.dec)
          /\ FrameDag(ch, ch')
          /\ Adjacency(node_data') = Adjacency(node_data)
    /\ phase = "loaded" /\ phase' # "loaded" /\ rounds' = rounds =>
          /\ FrameDag(ch, ch')
          /\ con_index' = con_index
          /\ Adjacency(node_data') = Adjacency(node_data)
    /\ phase = "par" /\ rounds' = rounds =>
          /\ ch' = ch
          /\ node_data' = node_data
          /\ FrameLabels(con_index, con_index')
C30_OnlyValuesChange == [][FrameStep]_vars
C30_Witness ==
    /\ phase = "loaded"
    /\ rounds > 0
    /\ DagEdges(ch) # DagEdges(history.ch)
    /\ LabelSlots(con_index) # LabelSlots(history.con_index)
    /\ \E v \in DOMAIN con_index : con_index[v].parent # NO_NODE
====
